---- MODULE Spec2Model ----
(***************************************************************************)
(* A model of the containers of this repository:                           *)
(*   - RawList<T>   (src/list/raw_list.rs): one heap allocation + capacity *)
(*   - Queue<T>     (src/list/queue.rs):    circular buffer over a RawList *)
(*   - Queue<T>     (src/queue.rs):         the VecDeque-backed reference  *)
(*   - List<T>      (src/list.rs):          growable array over a RawList  *)
(*   - RawValIter, IntoIter, Drain (src/list/iter.rs, src/list.rs)         *)
(*                                                                         *)
(* Memory is modelled slot by slot: `slots` are the bits of the allocation *)
(* (a value id, or Junk for bits never written), `live` is the set of      *)
(* slots that own an initialized, not yet moved-out value.  ptr::read      *)
(* copies the bits and gives up ownership of the slot, ptr::write stores   *)
(* bits and makes the slot an owner, ptr::copy is a memmove that carries   *)
(* ownership along.  Values are opaque to the containers (no trait bound   *)
(* on T is used by the operations), so every inserted value is a fresh     *)
(* identifier: this lets the model count how often each value is handed    *)
(* out or destroyed.                                                       *)
(***************************************************************************)
EXTENDS Bags, Integers, Sequences, FiniteSets

VARIABLES
    q,          \* the circular-buffer Queue (src/list/queue.rs)
    dq,         \* the reference Queue (src/queue.rs) driven by the same calls
    pre,        \* the circular-buffer Queue as it was before the last call
    hist,       \* the mutating Queue calls made so far, with their results
    lastOp,     \* the name of the last Queue call
    ret,        \* what the last call returned on the circular-buffer Queue
    dret,       \* what the last call returned on the reference Queue
    out,        \* what the last call wrote to its formatter
    qdestroyed, \* the values destroyed by Queue calls so far, in order
    l,          \* the List (src/list.rs) and the memory of its buffer
    lpre,       \* the List as it was before the last List or iterator call
    it,         \* the RawValIter of the current IntoIter or Drain
    mode,       \* "list": the List is usable; "into_iter": an IntoIter owns
                \* the buffer; "drain": a Drain borrows the List;
                \* "dropped": the IntoIter and the buffer are gone
    orig,       \* the elements of the List when the iterator was created
    calls,      \* the next/next_back calls on the current iterator, with
                \* their results
    destroyed,  \* the values destroyed so far, in order of destruction
    npush,      \* the number of values pushed so far
    handed,     \* the bag of the values handed back to the caller by pop,
                \* remove, next and next_back
    lastL,      \* the name of the last List or iterator call
    lres        \* the index and value passed to the last List call, what it
                \* returned and whether it panicked

qvars == <<q, dq, pre, hist, lastOp, ret, dret, out, qdestroyed>>
lvars == <<l, lpre, it, mode, orig, calls, destroyed, npush, handed, lastL,
           lres>>
vars == <<q, dq, pre, hist, lastOp, ret, dret, out, qdestroyed,
          l, lpre, it, mode, orig, calls, destroyed, npush, handed, lastL,
          lres>>

\* Bound on the number of mutating Queue operations in one run.
MaxOps == 8

\* Bound on the number of values pushed to the List in one run.
MaxPush == 4

\* Bound on the number of next/next_back calls on one iterator.
MaxCalls == 5

\* Bound on the capacities (2^0 .. 2^MaxExp) of the full queues that the
\* growth step is applied to directly.
MaxExp == 3

\* Option::None ("absent"); values are the integers >= 1.
None == 0

\* The bits of a slot that was never written.
Junk == -1

\* The characters Display writes around and between the elements; an
\* element is written as its value.
LBracket == -2
Comma == -3
RBracket == -4

(***************************************************************************)
(* RawList                                                                 *)
(***************************************************************************)

\* RawList::new for a sized T: dangling pointer, capacity 0.  The field
\* heap lists the calls made to the allocator for this buffer so far.
RawList_new == [cap |-> 0, slots |-> [i \in {} |-> Junk], heap |-> << >>]

\* A growth that allocates afresh instead of reallocating: the old bytes
\* are lost.
RawList_grow_alloc(b) ==
    LET new_cap == IF b.cap = 0 THEN 1 ELSE 2 * b.cap
    IN  [cap |-> new_cap, slots |-> [i \in 0..(new_cap - 1) |-> Junk],
         heap |-> Append(b.heap, IF b.cap = 0 THEN "alloc" ELSE "realloc")]

\* A growth whose first allocation has room for 2 elements.
RawList_grow_from_two(b) ==
    LET new_cap == IF b.cap = 0 THEN 2 ELSE 2 * b.cap
    IN  [cap |-> new_cap,
         slots |-> [i \in 0..(new_cap - 1) |->
                      IF i < b.cap THEN b.slots[i] ELSE Junk],
         heap |-> Append(b.heap, IF b.cap = 0 THEN "alloc" ELSE "realloc")]

\* RawList::grow when it succeeds: capacity 0 -> 1 by alloc, c -> 2c by
\* realloc; realloc keeps the old bytes, the added slots are uninitialized.
RawList_grow(b) ==
    LET new_cap == IF b.cap = 0 THEN 1 ELSE 2 * b.cap
    IN  [cap |-> new_cap,
         slots |-> [i \in 0..(new_cap - 1) |->
                      IF i < b.cap THEN b.slots[i] ELSE Junk],
         heap |-> Append(b.heap, IF b.cap = 0 THEN "alloc" ELSE "realloc")]

\* The platform and the element type of the runs in which growth can
\* fail: isize is 8 bits wide (isize::MAX = 127) and T has the size and
\* the alignment of an i32.
IsizeMax == 127
ElemSize == 4
ElemAlign == 4

\* Layout::array::<T>(n): Err when the array, rounded up to the alignment,
\* would exceed isize::MAX bytes.
Layout_array(n) ==
    IF n * ElemSize > IsizeMax - (ElemAlign - 1)
    THEN [ok |-> FALSE, size |-> 0]
    ELSE [ok |-> TRUE, size |-> n * ElemSize]

\* A growth that stores the new capacity before it calls the allocator.
RawList_grow_cap_first(b, alloc_ok) ==
    LET new_cap == IF b.cap = 0 THEN 1 ELSE 2 * b.cap
        new_layout == Layout_array(new_cap)
    IN  IF ~new_layout.ok THEN [buf |-> b, fatal |-> "panic"]
        ELSE IF ~alloc_ok
        THEN [buf |-> [b EXCEPT !.cap = new_cap], fatal |-> "abort"]
        ELSE [buf |-> RawList_grow(b), fatal |-> "none"]

\* RawList::grow with its failures: the unwrap of the Layout and the
\* assertion on its size panic, a null pointer from the allocator
\* (alloc_ok false) aborts through handle_alloc_error; ptr and cap are
\* assigned only after all three.
RawList_grow_checked(b, alloc_ok) ==
    LET new_cap == IF b.cap = 0 THEN 1 ELSE 2 * b.cap
        new_layout == Layout_array(new_cap)
    IN  IF ~new_layout.ok THEN [buf |-> b, fatal |-> "panic"]
        ELSE IF ~(new_layout.size <= IsizeMax)
        THEN [buf |-> b, fatal |-> "panic"]
        ELSE IF ~alloc_ok THEN [buf |-> b, fatal |-> "abort"]
        ELSE [buf |-> RawList_grow(b), fatal |-> "none"]

\* A drop that calls dealloc whatever the capacity.
RawList_drop_always(b) == TRUE

\* Drop for RawList: whether dealloc is called.
RawList_drop(b) == b.cap # 0

\* alloc::dealloc of the buffer's allocation.
dealloc(b) == [b EXCEPT !.heap = Append(@, "dealloc")]

\* The buffer after Drop for RawList.
RawList_dropped(b) == IF RawList_drop(b) THEN dealloc(b) ELSE b

\* ptr::copy(src, dst, count) on the slots (memmove: overlapping allowed).
copy_slots(slots, src, dst, count) ==
    [i \in DOMAIN slots |->
       IF dst <= i /\ i < dst + count THEN slots[i - dst + src] ELSE slots[i]]

\* Ownership after ptr::copy used as a move: the source slots give up
\* their values, the destination slots own them.
copy_live(live, src, dst, count) ==
    (live \ {i \in live : src <= i /\ i < src + count})
      \cup {i - src + dst : i \in {j \in live : src <= j /\ j < src + count}}

(***************************************************************************)
(* Queue (circular buffer), src/list/queue.rs                              *)
(***************************************************************************)

Queue_new == [buf |-> RawList_new, len |-> 0, front |-> 0, live |-> {}]

cap(s) == s.buf.cap

\* A fullness test that a queue without elements never passes.
is_full_nonempty(s) == s.len = cap(s) /\ s.len > 0

is_full(s) == s.len = cap(s)

\* A tail index that forgets the front offset.
back_no_front(s) == s.len % cap(s)

\* A tail index that does not wrap around the end of the buffer.
back_no_wrap(s) == s.front + s.len

back(s) == (s.front + s.len) % cap(s)

\* A growth that doubles the buffer and relocates nothing.
grow_no_shuffle(s) == [s EXCEPT !.buf = RawList_grow(s.buf)]

\* A growth that always relocates the segment [front, cap), the longer one
\* included.
grow_front_always(s) ==
    LET front_len == cap(s) - s.front
        g == [s EXCEPT !.buf = RawList_grow(s.buf)]
        new_front == cap(g) - front_len
    IN  IF s.front = 0 THEN g
        ELSE [g EXCEPT
                !.buf.slots = copy_slots(@, s.front, new_front, front_len),
                !.live = copy_live(@, s.front, new_front, front_len),
                !.front = new_front]

\* Queue::grow
grow(s) ==
    LET front_len == cap(s) - s.front
        back_len == cap(s) - front_len
        g == [s EXCEPT !.buf = RawList_grow(s.buf)]
    IN  IF s.front = 0 THEN g
        ELSE IF front_len < back_len
        THEN LET new_front == cap(g) - front_len
             IN  [g EXCEPT
                    !.buf.slots = copy_slots(@, s.front, new_front, front_len),
                    !.live = copy_live(@, s.front, new_front, front_len),
                    !.front = new_front]
        ELSE LET shuffle_index == s.front + front_len
             IN  [g EXCEPT
                    !.buf.slots = copy_slots(@, 0, shuffle_index, back_len),
                    !.live = copy_live(@, 0, shuffle_index, back_len)]

\* A front that does not advance.
incr_front_stay(s) == s

\* Queue::incr_front
incr_front(s) ==
    LET f == s.front + 1
    IN  [s EXCEPT !.front = IF f = cap(s) THEN 0 ELSE f]

\* A decrement that stops at 0 instead of wrapping to capacity - 1.
decr_front_no_wrap(s) ==
    [s EXCEPT !.front = IF s.front = 0 THEN 0 ELSE s.front - 1]

decr_front(s) ==
    [s EXCEPT !.front = IF s.front = 0 THEN cap(s) - 1 ELSE s.front - 1]

\* An enqueue that writes at slot len, whatever front is.
enqueue_at_len(s, val) ==
    LET g == IF is_full(s) THEN grow(s) ELSE s
    IN  [g EXCEPT !.buf.slots[g.len] = val,
                  !.live = @ \cup {g.len},
                  !.len = @ + 1]

\* Queue::enqueue
enqueue(s, val) ==
    LET g == IF is_full(s) THEN grow(s) ELSE s
        b == back(g)
    IN  [g EXCEPT !.buf.slots[b] = val,
                  !.live = @ \cup {b},
                  !.len = @ + 1]

\* A dequeue that forgets len -= 1.
dequeue_keep_len(s) ==
    IF s.len = 0 THEN [q |-> s, ret |-> None]
    ELSE LET val == s.buf.slots[s.front]
             r == [s EXCEPT !.live = @ \ {s.front}]
         IN  [q |-> incr_front(r), ret |-> val]

\* A dequeue that advances front also when the queue is empty.
dequeue_empty_moves_front(s) ==
    IF s.len = 0 THEN [q |-> incr_front(s), ret |-> None]
    ELSE LET val == s.buf.slots[s.front]
             r == [s EXCEPT !.live = @ \ {s.front}]
         IN  [q |-> [incr_front(r) EXCEPT !.len = @ - 1], ret |-> val]

\* Queue::dequeue: the new queue and the returned Option.
dequeue(s) ==
    IF s.len = 0 THEN [q |-> s, ret |-> None]
    ELSE LET val == s.buf.slots[s.front]
             r == [s EXCEPT !.live = @ \ {s.front}]
         IN  [q |-> [incr_front(r) EXCEPT !.len = @ - 1], ret |-> val]

\* A requeue that decrements front against the old capacity and grows
\* afterwards (on a queue that has a buffer).
requeue_decr_first(s, val) ==
    LET d == IF cap(s) = 0 THEN s ELSE decr_front(s)
        g == IF is_full(d) THEN grow(d) ELSE d
        e == IF cap(s) = 0 THEN decr_front(g) ELSE g
    IN  [e EXCEPT !.buf.slots[e.front] = val,
                  !.live = @ \cup {e.front},
                  !.len = @ + 1]

\* Queue::requeue
requeue(s, val) ==
    LET g == IF is_full(s) THEN grow(s) ELSE s
        d == decr_front(g)
    IN  [d EXCEPT !.buf.slots[d.front] = val,
                  !.live = @ \cup {d.front},
                  !.len = @ + 1]

\* A peek that reads the first slot of the buffer instead of slot front.
peek_slot0(s) ==
    IF s.len = 0 THEN [q |-> s, ret |-> None]
    ELSE [q |-> s, ret |-> s.buf.slots[0]]

\* Queue::peek: the queue (borrowed, unchanged) and the returned Option.
peek(s) ==
    IF s.len = 0 THEN [q |-> s, ret |-> None]
    ELSE [q |-> s, ret |-> s.buf.slots[s.front]]

\* Queue::size
size(s) == s.len

\* The loop of Display::fmt from index i on: what it writes.
RECURSIVE fmt_loop(_, _)
fmt_loop(s, i) ==
    IF i >= s.len THEN << >>
    ELSE <<s.buf.slots[i]>>
           \o (IF i # s.len - 1 THEN <<Comma>> ELSE << >>)
           \o fmt_loop(s, i + 1)

\* Display for Queue: the queue (borrowed), what is written to the
\* formatter, and the values destroyed: each val read with ptr::read is
\* dropped at the end of its iteration.
fmt(s) ==
    [q |-> s,
     out |-> <<LBracket>> \o fmt_loop(s, s.front) \o <<RBracket>>,
     destroyed |-> [k \in 1..(s.len - s.front) |-> s.buf.slots[s.front + k - 1]]]

\* The values that `while let Some(_) = self.dequeue() { }` takes out of
\* the Queue and destroys, in order.
RECURSIVE dequeue_loop(_)
dequeue_loop(s) ==
    LET r == dequeue(s)
    IN  IF r.ret = None THEN << >> ELSE <<r.ret>> \o dequeue_loop(r.q)

\* The Queue when that loop ends.
RECURSIVE dequeue_loop_end(_)
dequeue_loop_end(s) ==
    LET r == dequeue(s)
    IN  IF r.ret = None THEN s ELSE dequeue_loop_end(r.q)

\* Drop for Queue: the Queue when the destructor's loop ends (the buffer is
\* released after that, by the drop of the field buf) and the values
\* destroyed, in order.
Queue_drop(s) == [q |-> dequeue_loop_end(s), destroyed |-> dequeue_loop(s)]

(***************************************************************************)
(* Queue (reference), src/queue.rs: a VecDeque as a sequence               *)
(***************************************************************************)

Deque_new == << >>

\* VecDeque::push_back
Deque_enqueue(d, val) == Append(d, val)

\* VecDeque::pop_front
Deque_dequeue(d) ==
    IF d = << >> THEN [dq |-> d, ret |-> None]
    ELSE [dq |-> Tail(d), ret |-> Head(d)]

\* VecDeque::push_front
Deque_requeue(d, val) == <<val>> \o d

\* VecDeque::front
Deque_peek(d) == IF d = << >> THEN None ELSE Head(d)

(***************************************************************************)
(* The Queue state machine: every call is made on both queues              *)
(***************************************************************************)

QInit ==
    /\ q = Queue_new
    /\ dq = Deque_new
    /\ pre = Queue_new
    /\ hist = << >>
    /\ lastOp = "new"
    /\ ret = None
    /\ dret = None
    /\ out = << >>
    /\ qdestroyed = << >>

\* The value of the next insertion: a fresh identifier.
NextVal == Len(hist) + 1

Enqueue ==
    /\ lastOp # "drop"
    /\ Len(hist) < MaxOps
    /\ q' = enqueue(q, NextVal)
    /\ dq' = Deque_enqueue(dq, NextVal)
    /\ pre' = q
    /\ hist' = Append(hist, [op |-> "enqueue", val |-> NextVal])
    /\ lastOp' = "enqueue"
    /\ ret' = None
    /\ dret' = None
    /\ out' = << >>
    /\ UNCHANGED qdestroyed
    /\ UNCHANGED lvars

Requeue ==
    /\ lastOp # "drop"
    /\ Len(hist) < MaxOps
    /\ q' = requeue(q, NextVal)
    /\ dq' = Deque_requeue(dq, NextVal)
    /\ pre' = q
    /\ hist' = Append(hist, [op |-> "requeue", val |-> NextVal])
    /\ lastOp' = "requeue"
    /\ ret' = None
    /\ dret' = None
    /\ out' = << >>
    /\ UNCHANGED qdestroyed
    /\ UNCHANGED lvars

Dequeue ==
    /\ lastOp # "drop"
    /\ Len(hist) < MaxOps
    /\ q' = dequeue(q).q
    /\ dq' = Deque_dequeue(dq).dq
    /\ pre' = q
    /\ hist' = Append(hist, [op |-> "dequeue", val |-> dequeue(q).ret])
    /\ lastOp' = "dequeue"
    /\ ret' = dequeue(q).ret
    /\ dret' = Deque_dequeue(dq).ret
    /\ out' = << >>
    /\ UNCHANGED qdestroyed
    /\ UNCHANGED lvars

Peek ==
    /\ lastOp # "drop"
    /\ q' = peek(q).q
    /\ dq' = dq
    /\ pre' = q
    /\ hist' = hist
    /\ lastOp' = "peek"
    /\ ret' = peek(q).ret
    /\ dret' = Deque_peek(dq)
    /\ out' = << >>
    /\ UNCHANGED qdestroyed
    /\ UNCHANGED lvars

\* format!("{}", q) / q.to_string()
Fmt ==
    /\ lastOp # "drop"
    /\ Len(hist) < MaxOps
    /\ q' = fmt(q).q
    /\ dq' = dq
    /\ pre' = q
    /\ hist' = Append(hist, [op |-> "fmt", val |-> None])
    /\ lastOp' = "fmt"
    /\ ret' = None
    /\ dret' = None
    /\ out' = fmt(q).out
    /\ qdestroyed' = qdestroyed \o fmt(q).destroyed
    /\ UNCHANGED lvars

\* The Queue goes out of scope: its destructor runs, then its field buf is
\* dropped, which releases the buffer.  No call follows.
DropQueue ==
    /\ lastOp # "drop"
    /\ q' = [Queue_drop(q).q EXCEPT !.buf = RawList_dropped(@)]
    /\ qdestroyed' = qdestroyed \o Queue_drop(q).destroyed
    /\ dq' = dq
    /\ pre' = q
    /\ hist' = hist
    /\ lastOp' = "drop"
    /\ ret' = None
    /\ dret' = None
    /\ out' = << >>
    /\ UNCHANGED lvars

Next == Enqueue \/ Requeue \/ Dequeue \/ Peek \/ Fmt

\* The calls on a Queue up to and including its destruction.
QueueLifeNext == Enqueue \/ Requeue \/ Dequeue \/ Peek \/ Fmt \/ DropQueue

(***************************************************************************)
(* List, src/list.rs                                                       *)
(***************************************************************************)

List_new == [buf |-> RawList_new, len |-> 0, live |-> {}]

\* A push that grows the buffer whether it is full or not.
push_grow_always(s, val) ==
    LET g == [s EXCEPT !.buf = RawList_grow(s.buf)]
    IN  [g EXCEPT !.buf.slots[g.len] = val,
                  !.live = @ \cup {g.len},
                  !.len = @ + 1]

\* A push that forgets len += 1.
push_keep_len(s, val) ==
    LET g == IF s.len = cap(s)
             THEN [s EXCEPT !.buf = RawList_grow(s.buf)] ELSE s
    IN  [g EXCEPT !.buf.slots[g.len] = val,
                  !.live = @ \cup {g.len}]

\* List::push
push(s, val) ==
    LET g == IF s.len = cap(s)
             THEN [s EXCEPT !.buf = RawList_grow(s.buf)] ELSE s
    IN  [g EXCEPT !.buf.slots[g.len] = val,
                  !.live = @ \cup {g.len},
                  !.len = @ + 1]

\* A view of all the slots of the buffer.
deref_to_cap(s) == [k \in 1..cap(s) |-> s.buf.slots[k - 1]]

\* List::push when growth can fail: nothing after the call of grow runs
\* when grow panics or aborts.
push_checked(s, val, alloc_ok) ==
    LET g == RawList_grow_checked(s.buf, alloc_ok)
    IN  IF s.len = cap(s) /\ g.fatal # "none"
        THEN [l |-> s, fatal |-> g.fatal]
        ELSE [l |-> push(s, val), fatal |-> "none"]

\* Deref for List: the slice of the slots [0, len).
deref(s) == [k \in 1..s.len |-> s.buf.slots[k - 1]]

\* list[i]: the slice from Deref::deref indexed at i, which panics with
\* "index out of bounds" when i is not below the slice's length.
slice_index(s, i) ==
    LET view == deref(s)
    IN  IF i < Len(view) THEN [ret |-> view[i + 1], panic |-> FALSE]
        ELSE [ret |-> None, panic |-> TRUE]

\* A get that checks the index against the capacity.
get_cap_check(s, i) ==
    IF i >= cap(s) THEN [l |-> s, ret |-> None]
    ELSE [l |-> s, ret |-> s.buf.slots[i]]

\* List::get: the List (borrowed, unchanged) and the returned Option.
get(s, i) ==
    IF i >= s.len THEN [l |-> s, ret |-> None]
    ELSE [l |-> s, ret |-> s.buf.slots[i]]

\* A pop that reads the slot before decrementing len, one past the last
\* element.
pop_stale_len(s) ==
    IF s.len = 0 THEN [l |-> s, ret |-> None]
    ELSE [l |-> [s EXCEPT !.len = @ - 1, !.live = @ \ {s.len - 1}],
          ret |-> s.buf.slots[(s.len) % cap(s)]]

\* List::pop: the List afterwards and the returned Option.
pop(s) ==
    IF s.len = 0 THEN [l |-> s, ret |-> None]
    ELSE LET n == s.len - 1
         IN  [l |-> [s EXCEPT !.len = n, !.live = @ \ {n}],
              ret |-> s.buf.slots[n]]

\* An insert that shifts one element too few.
insert_short_shift(s, index, val) ==
    IF ~(index <= s.len) THEN [l |-> s, panic |-> TRUE]
    ELSE LET g == IF s.len = cap(s)
                  THEN [s EXCEPT !.buf = RawList_grow(s.buf)] ELSE s
             c == g.len - index - 1
         IN  [l |-> [g EXCEPT
                       !.buf.slots =
                          [copy_slots(@, index, index + 1, c)
                             EXCEPT ![index] = val],
                       !.live = copy_live(@, index, index + 1, c)
                                  \cup {index},
                       !.len = @ + 1],
              panic |-> FALSE]

\* List::insert: the List afterwards, or the List at the failed assertion
\* "index out of bounds".
insert(s, index, val) ==
    IF ~(index <= s.len) THEN [l |-> s, panic |-> TRUE]
    ELSE LET g == IF s.len = cap(s)
                  THEN [s EXCEPT !.buf = RawList_grow(s.buf)] ELSE s
             c == g.len - index
         IN  [l |-> [g EXCEPT
                       !.buf.slots =
                          [copy_slots(@, index, index + 1, c)
                             EXCEPT ![index] = val],
                       !.live = copy_live(@, index, index + 1, c)
                                  \cup {index},
                       !.len = @ + 1],
              panic |-> FALSE]

\* List::insert when growth can fail.
insert_checked(s, index, val, alloc_ok) ==
    LET g == RawList_grow_checked(s.buf, alloc_ok)
    IN  IF ~(index <= s.len) THEN [l |-> s, fatal |-> "panic"]
        ELSE IF s.len = cap(s) /\ g.fatal # "none"
        THEN [l |-> s, fatal |-> g.fatal]
        ELSE [l |-> insert(s, index, val).l, fatal |-> "none"]

\* A remove that takes the value out and shifts nothing.
remove_no_shift(s, index) ==
    IF ~(index < s.len) THEN [l |-> s, ret |-> None, panic |-> TRUE]
    ELSE [l |-> [s EXCEPT !.len = @ - 1, !.live = @ \ {s.len - 1}],
          ret |-> s.buf.slots[index], panic |-> FALSE]

\* A remove that forgets len -= 1.
remove_keep_len(s, index) ==
    IF ~(index < s.len) THEN [l |-> s, ret |-> None, panic |-> TRUE]
    ELSE LET c == s.len - 1 - index
         IN  [l |-> [s EXCEPT
                       !.buf.slots = copy_slots(@, index + 1, index, c),
                       !.live = copy_live(@ \ {index}, index + 1, index, c)],
              ret |-> s.buf.slots[index], panic |-> FALSE]

\* A remove that decrements len before it checks the index.
remove_decr_first(s, index) ==
    IF ~(index < s.len)
    THEN [l |-> [s EXCEPT !.len = @ - 1], ret |-> None, panic |-> TRUE]
    ELSE LET n == s.len - 1
             c == n - index
         IN  [l |-> [s EXCEPT
                       !.len = n,
                       !.buf.slots = copy_slots(@, index + 1, index, c),
                       !.live = copy_live(@ \ {index}, index + 1, index, c)],
              ret |-> s.buf.slots[index], panic |-> FALSE]

\* List::remove: the List afterwards and the removed value, or the List at
\* the failed assertion "index out of bounds".
remove(s, index) ==
    IF ~(index < s.len) THEN [l |-> s, ret |-> None, panic |-> TRUE]
    ELSE LET n == s.len - 1
             c == n - index
         IN  [l |-> [s EXCEPT
                       !.len = n,
                       !.buf.slots = copy_slots(@, index + 1, index, c),
                       !.live = copy_live(@ \ {index}, index + 1, index, c)],
              ret |-> s.buf.slots[index], panic |-> FALSE]

\* The values that `while let Some(_) = self.pop() { }` takes out of the
\* List and destroys, in order.
RECURSIVE pop_loop(_)
pop_loop(s) ==
    LET r == pop(s)
    IN  IF r.ret = None THEN << >> ELSE <<r.ret>> \o pop_loop(r.l)

\* The List when that loop ends.
RECURSIVE pop_loop_end(_)
pop_loop_end(s) ==
    LET r == pop(s)
    IN  IF r.ret = None THEN s ELSE pop_loop_end(r.l)

\* A destructor that pops once instead of looping.
List_drop_once(s) ==
    LET r == pop(s)
    IN  [l |-> r.l,
         destroyed |-> IF r.ret = None THEN << >> ELSE <<r.ret>>]

\* Drop for List: the List when the destructor's loop ends (the buffer is
\* released after that, by the drop of the field buf) and the values
\* destroyed, in order.
List_drop(s) == [l |-> pop_loop_end(s), destroyed |-> pop_loop(s)]

(***************************************************************************)
(* RawValIter, IntoIter, Drain: src/list/iter.rs, src/list.rs              *)
(* Cursors are slot indices relative to the base of the buffer.            *)
(***************************************************************************)

\* A cursor pair whose back stops one element short of the slice's end.
RawValIter_new_short(slice) ==
    [front |-> 0, back |-> IF Len(slice) = 0 THEN 0 ELSE Len(slice) - 1]

\* RawValIter::new (sized T)
RawValIter_new(slice) ==
    [front |-> 0, back |-> IF Len(slice) = 0 THEN 0 ELSE 0 + Len(slice)]

\* RawValIter::next: the iterator afterwards, the returned Option and the
\* slot that was read (None when no slot was read).
next(i, slots) ==
    IF i.front = i.back THEN [it |-> i, ret |-> None, slot |-> None]
    ELSE [it |-> [i EXCEPT !.front = @ + 1],
          ret |-> slots[i.front], slot |-> i.front]

\* RawValIter::next_back
next_back(i, slots) ==
    IF i.front = i.back THEN [it |-> i, ret |-> None, slot |-> None]
    ELSE [it |-> [i EXCEPT !.back = @ - 1],
          ret |-> slots[i.back - 1], slot |-> i.back - 1]

\* A size_hint that measures from the base of the buffer.
size_hint_from_base(i) == <<i.back, i.back>>

\* RawValIter::size_hint: (len, Some(len))
size_hint(i) == <<i.back - i.front, i.back - i.front>>

\* A drain that leaves the List's length as it was.
drain_keep_len(s) == [l |-> s, it |-> RawValIter_new(deref(s))]

\* A drain that leaves the first element with the List as well as with
\* the Drain.
drain_keep_first(s) ==
    [l |-> [s EXCEPT !.len = IF s.len = 0 THEN 0 ELSE 1],
     it |-> RawValIter_new(deref(s))]

\* List::drain: the List afterwards and the Drain's cursors.
drain(s) == [l |-> [s EXCEPT !.len = 0], it |-> RawValIter_new(deref(s))]

\* List::into_iter: the IntoIter's cursors; the buffer moves to the
\* IntoIter and the List is forgotten.
into_iter(s) == [buf |-> s.buf, it |-> RawValIter_new(deref(s))]

\* The values that `for _ in &mut *self {}` takes out of the iterator and
\* destroys, in order: next() until it returns None.
RECURSIVE drop_loop(_, _)
drop_loop(i, slots) ==
    LET n == next(i, slots)
    IN  IF n.ret = None THEN << >> ELSE <<n.ret>> \o drop_loop(n.it, slots)

\* A destructor that destroys everything up to the back cursor, whether
\* already yielded from the front or not.
IntoIter_drop_from_start(i, slots) == drop_loop([i EXCEPT !.front = 0], slots)

\* Drop for IntoIter: the values destroyed before the buffer is released.
IntoIter_drop(i, slots) == drop_loop(i, slots)

\* Drop for Drain: the values destroyed.
Drain_drop(i, slots) == drop_loop(i, slots)

(***************************************************************************)
(* The List and iterator state machine                                     *)
(***************************************************************************)

\* The bag of the values handed back once the call that returned r is
\* over (None: nothing was handed back).
Given(bag, r) == IF r = None THEN bag ELSE bag (+) SetToBag({r})

\* The record of a List call: its index and value arguments (None when it
\* has none), what it returned and whether it panicked.
Call(i, v, r, p) == [idx |-> i, val |-> v, ret |-> r, panic |-> p]

LInit ==
    /\ l = List_new
    /\ lpre = List_new
    /\ it = RawValIter_new(<< >>)
    /\ mode = "list"
    /\ orig = << >>
    /\ calls = << >>
    /\ destroyed = << >>
    /\ npush = 0
    /\ handed = EmptyBag
    /\ lastL = "new"
    /\ lres = Call(None, None, None, FALSE)

\* push of a fresh value (no iterator exists: the bookkeeping of the last
\* one is cleared).
Push ==
    /\ mode = "list"
    /\ npush < MaxPush
    /\ l' = push(l, npush + 1)
    /\ lpre' = l
    /\ npush' = npush + 1
    /\ lastL' = "push"
    /\ it' = RawValIter_new(<< >>)
    /\ orig' = << >>
    /\ calls' = << >>
    /\ lres' = Call(None, npush + 1, None, FALSE)
    /\ UNCHANGED <<mode, destroyed, handed>>
    /\ UNCHANGED qvars

IntoIter ==
    /\ mode = "list"
    /\ l' = [l EXCEPT !.buf = into_iter(l).buf]
    /\ lpre' = l
    /\ it' = into_iter(l).it
    /\ mode' = "into_iter"
    /\ orig' = deref(l)
    /\ calls' = << >>
    /\ lastL' = "into_iter"
    /\ UNCHANGED <<destroyed, npush, handed, lres>>
    /\ UNCHANGED qvars

Drain ==
    /\ mode = "list"
    /\ l' = drain(l).l
    /\ lpre' = l
    /\ it' = drain(l).it
    /\ mode' = "drain"
    /\ orig' = deref(l)
    /\ calls' = << >>
    /\ lastL' = "drain"
    /\ UNCHANGED <<destroyed, npush, handed, lres>>
    /\ UNCHANGED qvars

IterNext ==
    /\ mode \in {"into_iter", "drain"}
    /\ Len(calls) < MaxCalls
    /\ LET n == next(it, l.buf.slots)
       IN  /\ it' = n.it
           /\ l' = [l EXCEPT !.live = @ \ {n.slot}]
           /\ calls' = Append(calls, [op |-> "next", val |-> n.ret])
           /\ handed' = Given(handed, n.ret)
    /\ lpre' = l
    /\ lastL' = "next"
    /\ UNCHANGED <<mode, orig, destroyed, npush, lres>>
    /\ UNCHANGED qvars

IterNextBack ==
    /\ mode \in {"into_iter", "drain"}
    /\ Len(calls) < MaxCalls
    /\ LET n == next_back(it, l.buf.slots)
       IN  /\ it' = n.it
           /\ l' = [l EXCEPT !.live = @ \ {n.slot}]
           /\ calls' = Append(calls, [op |-> "next_back", val |-> n.ret])
           /\ handed' = Given(handed, n.ret)
    /\ lpre' = l
    /\ lastL' = "next_back"
    /\ UNCHANGED <<mode, orig, destroyed, npush, lres>>
    /\ UNCHANGED qvars

\* The IntoIter goes out of scope: its destructor runs, then its fields are
\* dropped, which releases the buffer.
DropIntoIter ==
    /\ mode = "into_iter"
    /\ destroyed' = destroyed \o IntoIter_drop(it, l.buf.slots)
    /\ it' = [it EXCEPT !.front = it.back]
    /\ l' = [l EXCEPT !.live = @ \ (it.front..(it.back - 1)),
                      !.buf = RawList_dropped(@)]
    /\ lpre' = l
    /\ mode' = "dropped"
    /\ lastL' = "drop_into_iter"
    /\ UNCHANGED <<orig, calls, npush, handed, lres>>
    /\ UNCHANGED qvars

\* The Drain goes out of scope: its destructor runs and the borrow of the
\* List ends.
DropDrain ==
    /\ mode = "drain"
    /\ destroyed' = destroyed \o Drain_drop(it, l.buf.slots)
    /\ it' = [it EXCEPT !.front = it.back]
    /\ l' = [l EXCEPT !.live = @ \ (it.front..(it.back - 1))]
    /\ lpre' = l
    /\ mode' = "list"
    /\ lastL' = "drop_drain"
    /\ UNCHANGED <<orig, calls, npush, handed, lres>>
    /\ UNCHANGED qvars

\* The Drain is leaked (std::mem::forget, or a cycle of owners): Drop for
\* Drain never runs and the borrow of the List ends.  The elements that were
\* not yielded stay in their slots as bits that nobody owns any more.
ForgetDrain ==
    /\ mode = "drain"
    /\ l' = [l EXCEPT !.live = @ \ (it.front..(it.back - 1))]
    /\ lpre' = l
    /\ mode' = "list"
    /\ lastL' = "forget_drain"
    /\ UNCHANGED <<it, orig, calls, destroyed, npush, handed, lres>>
    /\ UNCHANGED qvars

\* pop (no iterator exists: the bookkeeping of the last one is cleared, as
\* it is by insert and remove)
Pop ==
    /\ mode = "list"
    /\ l' = pop(l).l
    /\ lpre' = l
    /\ lastL' = "pop"
    /\ lres' = Call(None, None, pop(l).ret, FALSE)
    /\ handed' = Given(handed, pop(l).ret)
    /\ it' = RawValIter_new(<< >>)
    /\ orig' = << >>
    /\ calls' = << >>
    /\ UNCHANGED <<mode, destroyed, npush>>
    /\ UNCHANGED qvars

\* get(i), for the indices up to one past the capacity
Get ==
    /\ mode = "list"
    /\ \E i \in 0..(cap(l) + 1) :
         /\ l' = get(l, i).l
         /\ lres' = Call(i, None, get(l, i).ret, FALSE)
    /\ lpre' = l
    /\ lastL' = "get"
    /\ UNCHANGED <<it, mode, orig, calls, destroyed, npush, handed>>
    /\ UNCHANGED qvars

\* insert(i, v) of a fresh value, for the indices up to one past the
\* length; a failed assertion ends the use of the List.
Insert ==
    /\ mode = "list"
    /\ npush < MaxPush
    /\ \E i \in 0..(l.len + 1) :
         LET r == insert(l, i, npush + 1)
         IN  /\ l' = r.l
             /\ lres' = Call(i, npush + 1, None, r.panic)
             /\ mode' = IF r.panic THEN "panicked" ELSE mode
             /\ npush' = IF r.panic THEN npush ELSE npush + 1
    /\ lpre' = l
    /\ lastL' = "insert"
    /\ it' = RawValIter_new(<< >>)
    /\ orig' = << >>
    /\ calls' = << >>
    /\ UNCHANGED <<destroyed, handed>>
    /\ UNCHANGED qvars

\* remove(i), for the indices up to the length; a failed assertion ends
\* the use of the List.
Remove ==
    /\ mode = "list"
    /\ \E i \in 0..l.len :
         LET r == remove(l, i)
         IN  /\ l' = r.l
             /\ lres' = Call(i, None, r.ret, r.panic)
             /\ mode' = IF r.panic THEN "panicked" ELSE mode
             /\ handed' = Given(handed, r.ret)
    /\ lpre' = l
    /\ lastL' = "remove"
    /\ it' = RawValIter_new(<< >>)
    /\ orig' = << >>
    /\ calls' = << >>
    /\ UNCHANGED <<destroyed, npush>>
    /\ UNCHANGED qvars

\* list[i], for the indices up to one past the capacity; a failed bounds
\* check ends the use of the List.
Index ==
    /\ mode = "list"
    /\ \E i \in 0..(cap(l) + 1) :
         /\ lres' = Call(i, None, slice_index(l, i).ret, slice_index(l, i).panic)
         /\ mode' = IF slice_index(l, i).panic THEN "panicked" ELSE mode
    /\ l' = l
    /\ lpre' = l
    /\ lastL' = "index"
    /\ UNCHANGED <<it, orig, calls, destroyed, npush, handed>>
    /\ UNCHANGED qvars

\* The List goes out of scope, at the end of its use or while a panic
\* unwinds: its destructor runs, then its field buf is dropped, which
\* releases the buffer.
DropList ==
    /\ mode \in {"list", "panicked"}
    /\ l' = [List_drop(l).l EXCEPT !.buf = RawList_dropped(@)]
    /\ destroyed' = destroyed \o List_drop(l).destroyed
    /\ lpre' = l
    /\ mode' = "dropped"
    /\ lastL' = "drop_list"
    /\ lres' = Call(None, None, None, FALSE)
    /\ UNCHANGED <<it, orig, calls, npush, handed>>
    /\ UNCHANGED qvars

Init == QInit /\ LInit

Spec == Init /\ [][Next]_vars

ListNext ==
    Push \/ IntoIter \/ Drain \/ IterNext \/ IterNextBack
      \/ DropIntoIter \/ DropDrain

ListSpec == Init /\ [][ListNext]_vars

EditNext == Push \/ Pop \/ Get \/ Index \/ Insert \/ Remove \/ DropList

EditSpec == Init /\ [][EditNext]_vars

\* The state of the run after a call that ended with outcome fatal: a
\* panic or an abort ends the use of the List.
After(fatal) ==
    IF fatal = "none" THEN "list"
    ELSE IF fatal = "panic" THEN "panicked" ELSE "aborted"

\* push of a fresh value when growth can fail, with either answer of the
\* allocator
PushChecked ==
    /\ mode = "list"
    /\ \E alloc_ok \in BOOLEAN :
         LET r == push_checked(l, npush + 1, alloc_ok)
         IN  /\ l' = r.l
             /\ mode' = After(r.fatal)
             /\ npush' = IF r.fatal = "none" THEN npush + 1 ELSE npush
             /\ lres' = Call(None, npush + 1, None, r.fatal = "panic")
    /\ lpre' = l
    /\ lastL' = "push"
    /\ UNCHANGED <<it, orig, calls, destroyed, handed>>
    /\ UNCHANGED qvars

\* insert(i, v) of a fresh value into a full List (the case in which
\* insert calls grow) when growth can fail
InsertChecked ==
    /\ mode = "list"
    /\ l.len = cap(l)
    /\ \E i \in 0..l.len : \E alloc_ok \in BOOLEAN :
         LET r == insert_checked(l, i, npush + 1, alloc_ok)
         IN  /\ l' = r.l
             /\ mode' = After(r.fatal)
             /\ npush' = IF r.fatal = "none" THEN npush + 1 ELSE npush
             /\ lres' = Call(i, npush + 1, None, r.fatal = "panic")
    /\ lpre' = l
    /\ lastL' = "insert"
    /\ UNCHANGED <<it, orig, calls, destroyed, handed>>
    /\ UNCHANGED qvars

\* The insertions into a List on the platform on which growth fails.
GrowNext == PushChecked \/ InsertChecked

GrowSpec == Init /\ [][GrowNext]_vars

QueueLifeSpec == Init /\ [][QueueLifeNext]_vars

\* The calls on a List and on its iterators up to and including the
\* destruction of the List or of the IntoIter that took its buffer.
LifeNext ==
    Push \/ Pop \/ Insert \/ Remove \/ IntoIter \/ Drain \/ IterNext
      \/ IterNextBack \/ DropIntoIter \/ DropDrain \/ DropList

LifeSpec == Init /\ [][LifeNext]_vars

\* The calls on a List that is drained: the Drain is consumed, dropped or
\* leaked, and the List is used and destroyed afterwards.
DrainNext ==
    Push \/ Pop \/ Drain \/ IterNext \/ IterNextBack \/ DropDrain
      \/ ForgetDrain \/ DropList

DrainSpec == Init /\ [][DrainNext]_vars

(***************************************************************************)
(* Observations of a Queue used by the properties                          *)
(***************************************************************************)

\* The len slots of a queue read cyclically from front.
Contents(s) ==
    [k \in 1..s.len |-> s.buf.slots[(s.front + k - 1) % cap(s)]]

\* The cyclic index range front, front+1, ..., front+len-1 (mod capacity).
CyclicRange(s) == {(s.front + k) % cap(s) : k \in 0..(s.len - 1)}

\* The values returned by dequeueing until dequeue returns None.
RECURSIVE DequeueAll(_)
DequeueAll(s) ==
    LET d == dequeue(s)
    IN  IF d.ret = None THEN << >> ELSE <<d.ret>> \o DequeueAll(d.q)

\* A queue after the calls of `ops` (<<"e", v>>, <<"r", v>> or <<"d">>).
RECURSIVE RunOps(_, _)
RunOps(s, ops) ==
    IF ops = << >> THEN s
    ELSE LET o == Head(ops)
             t == IF o[1] = "e" THEN enqueue(s, o[2])
                  ELSE IF o[1] = "r" THEN requeue(s, o[2])
                  ELSE dequeue(s).q
         IN  RunOps(t, Tail(ops))

RECURSIVE Pow2(_)
Pow2(e) == IF e = 0 THEN 1 ELSE 2 * Pow2(e - 1)

\* The allocator calls that lead to a buffer of capacity c.
RECURSIVE HeapOfCap(_)
HeapOfCap(c) ==
    IF c = 0 THEN << >>
    ELSE IF c = 1 THEN <<"alloc">>
    ELSE Append(HeapOfCap(c \div 2), "realloc")

\* The full queue of capacity c whose head is at slot f, holding 1..c in
\* logical order (what c enqueues, f dequeues and f enqueues leave, up to
\* the names of the values).
FullQueue(c, f) ==
    [buf |-> [cap |-> c, slots |-> [i \in 0..(c - 1) |-> 1 + ((i - f) % c)],
              heap |-> HeapOfCap(c)],
     len |-> c, front |-> f, live |-> 0..(c - 1)]

\* The number of calls of hist that satisfy Test.
Count(Test(_)) == Cardinality({i \in 1..Len(hist) : Test(hist[i])})

IsEnqueue(h) == h.op = "enqueue"
IsRequeue(h) == h.op = "requeue"
IsDequeued(h) == h.op = "dequeue" /\ h.val # None

\* Growing the full queue of each capacity 2^0..2^MaxExp with its head at
\* each slot keeps the elements 1..c in logical order.
GrowOfEveryFullQueue ==
    \A e \in 0..MaxExp : \A f \in 0..(Pow2(e) - 1) :
        Contents(grow(FullQueue(Pow2(e), f))) = [k \in 1..Pow2(e) |-> k]

\* enqueue 1,2,3,4, dequeue twice, enqueue 5,6,7, then dequeue until None.
WrapAroundRun ==
    DequeueAll(RunOps(Queue_new,
        << <<"e", 1>>, <<"e", 2>>, <<"e", 3>>, <<"e", 4>>, <<"d">>, <<"d">>,
           <<"e", 5>>, <<"e", 6>>, <<"e", 7>> >>)) = <<3, 4, 5, 6, 7>>

(***************************************************************************)
(* Properties of the Queue                                                 *)
(***************************************************************************)

\* C1: driven by the same calls, the circular-buffer Queue and the
\* reference deque Queue return the same result from every dequeue and
\* every peek, and after every call the len slots of the circular queue
\* read cyclically from front are the deque's contents in order.
C1_RefinesDeque ==
    /\ ret = dret
    /\ peek(q).ret = Deque_peek(dq)
    /\ Contents(q) = dq

\* C1 witness: a dequeue returned an element of a grown queue whose live
\* range wraps around the end of the buffer.
C1_Witness ==
    /\ lastOp = "dequeue"
    /\ ret # None
    /\ cap(q) >= 4
    /\ q.len >= 2
    /\ q.front + q.len > cap(q)

\* C2: when enqueue or requeue finds the queue full and grows it, the
\* existing elements and their logical order are the same right after the
\* growth step as before it, for every front offset; and the run
\* enqueue 1,2,3,4, dequeue, dequeue, enqueue 5,6,7 then dequeues
\* 3,4,5,6,7 and then None.
C2_GrowKeepsOrder ==
    /\ is_full(q) =>
         /\ Contents(grow(q)) = Contents(q)
         /\ grow(q).len = q.len
    /\ (lastOp = "enqueue" /\ is_full(pre)) =>
         SubSeq(Contents(q), 1, pre.len) = Contents(pre)
    /\ (lastOp = "requeue" /\ is_full(pre)) =>
         Tail(Contents(q)) = Contents(pre)
    /\ GrowOfEveryFullQueue
    /\ WrapAroundRun

\* C2 witness: an enqueue or requeue grew a full queue of capacity 4 whose
\* head was at slot 3.
C2_Witness ==
    /\ lastOp \in {"enqueue", "requeue"}
    /\ is_full(pre)
    /\ cap(pre) = 4
    /\ pre.front = 3
    /\ cap(q) = 8

\* C3: requeue(v) on a full queue (a new queue of capacity 0 included)
\* grows the buffer first and then decrements front cyclically against the
\* new capacity; afterwards peek is v and the dequeues yield v followed by
\* the elements that were present, in their prior order.
C3_RequeueFullGrowsFirst ==
    /\ is_full(q) =>
         LET g == grow(q)
             r == requeue(q, NextVal)
         IN  /\ cap(r) = cap(g)
             /\ cap(r) = IF cap(q) = 0 THEN 1 ELSE 2 * cap(q)
             /\ r.front = (g.front + cap(g) - 1) % cap(g)
             /\ peek(r).ret = NextVal
             /\ DequeueAll(r) = <<NextVal>> \o Contents(q)
    /\ (lastOp = "requeue" /\ is_full(pre)) =>
         /\ q.front = (grow(pre).front + cap(q) - 1) % cap(q)
         /\ peek(q).ret = hist[Len(hist)].val
         /\ DequeueAll(q) = <<hist[Len(hist)].val>> \o Contents(pre)

\* C3 witness: a requeue found a full queue with its head at slot 0, grew
\* it and wrapped front to the last slot of the new buffer.
C3_Witness ==
    /\ lastOp = "requeue"
    /\ is_full(pre)
    /\ cap(pre) >= 2
    /\ pre.front = 0
    /\ q.front = cap(q) - 1

\* C4: in every reachable state, requeue(v) immediately followed by
\* dequeue() returns v and leaves size() and the logical sequence of the
\* other elements as they were before the requeue.
C4_RequeueThenDequeue ==
    /\ LET r == requeue(q, NextVal)
           d == dequeue(r)
       IN  /\ d.ret = NextVal
           /\ size(d.q) = size(q)
           /\ Contents(d.q) = Contents(q)
    /\ (/\ lastOp = "dequeue"
        /\ Len(hist) >= 2
        /\ hist[Len(hist) - 1].op = "requeue") =>
         /\ ret = hist[Len(hist) - 1].val
         /\ size(q) = size(pre) - 1

\* C4 witness: a dequeue right after a requeue that found the queue full
\* and grew it (the third insertion, which takes the capacity from 2 to 4).
C4_Witness ==
    /\ lastOp = "dequeue"
    /\ Len(hist) = 4
    /\ hist[1].op # "dequeue"
    /\ hist[2].op # "dequeue"
    /\ hist[3].op = "requeue"
    /\ ret = hist[3].val
    /\ cap(q) = 4
    /\ q.len = 2

\* C5: peek() returns None exactly when size() is 0 and otherwise the
\* element the next dequeue() would return; peek changes neither len,
\* front, capacity nor any stored element.
C5_PeekIsHead ==
    /\ (peek(q).ret = None) <=> (size(q) = 0)
    /\ size(q) > 0 => peek(q).ret = dequeue(q).ret
    /\ peek(q).q = q
    /\ lastOp = "peek" =>
         /\ q = pre
         /\ ret = dequeue(q).ret

\* C5 witness: a peek returned the head of a queue whose head is not at
\* slot 0 and whose live range wraps.
C5_Witness ==
    /\ lastOp = "peek"
    /\ ret # None
    /\ q.front > 0
    /\ q.front + q.len > cap(q)

\* C6: size() is the number of enqueues plus the number of requeues minus
\* the number of dequeues that returned an element; growth does not
\* change size().
C6_SizeCounts ==
    /\ size(q) = Count(IsEnqueue) + Count(IsRequeue) - Count(IsDequeued)
    /\ is_full(q) => size(grow(q)) = size(q)

\* C6 witness: after a growth and after dequeues of which at least one
\* returned None, the queue holds several elements.
C6_Witness ==
    /\ \E i \in 1..Len(hist) : hist[i].op = "dequeue" /\ hist[i].val = None
    /\ Count(IsDequeued) >= 1
    /\ Count(IsRequeue) >= 1
    /\ size(q) >= 3
    /\ cap(q) >= 4

\* C7: len <= capacity; when capacity > 0, 0 <= front < capacity; and the
\* slots holding a live element are exactly the cyclic index range
\* front, ..., front+len-1 modulo capacity (also right after a growth).
C7_QueueInvariant ==
    /\ q.len <= cap(q)
    /\ q.len >= 0
    /\ cap(q) > 0 => (0 <= q.front /\ q.front < cap(q))
    /\ q.live = CyclicRange(q)
    /\ \A i \in q.live : q.buf.slots[i] # Junk
    /\ is_full(q) => grow(q).live = CyclicRange(grow(q))

\* C7 witness: a partly filled queue whose live range wraps around the end
\* of the buffer, with moved-out slots in between.
C7_Witness ==
    /\ cap(q) = 8
    /\ q.len >= 3
    /\ q.len < cap(q)
    /\ q.front + q.len > cap(q)
    /\ \E i \in 0..(cap(q) - 1) : i \notin q.live /\ q.buf.slots[i] # Junk

(***************************************************************************)
(* Observations of an iterator used by the properties                      *)
(***************************************************************************)

\* The values the current iterator handed to the caller.
Yielded == {calls[i].val : i \in 1..Len(calls)} \ {None}

\* The number of successful calls of kind op among the first i - 1 calls.
Succeeded(op, i) ==
    Cardinality({j \in 1..(i - 1) : calls[j].op = op /\ calls[j].val # None})

\* How often value e has been destroyed.
TimesDestroyed(e) ==
    Cardinality({i \in 1..Len(destroyed) : destroyed[i] = e})

(***************************************************************************)
(* Properties of the iterators                                             *)
(***************************************************************************)

\* C8: for a List of n elements and any interleaving of next() and
\* next_back() on its IntoIter or its Drain, the k-th successful next()
\* yields the element at index k-1, the k-th successful next_back() the
\* element at index n-k, exactly n calls succeed and every later call
\* returns None.
C8_IterYieldsEachOnce ==
    \A i \in 1..Len(calls) :
        LET n == Len(orig)
            a == Succeeded("next", i)
            b == Succeeded("next_back", i)
        IN  IF a + b >= n
            THEN a + b = n /\ calls[i].val = None
            ELSE IF calls[i].op = "next"
            THEN calls[i].val = orig[a + 1]
            ELSE calls[i].val = orig[n - b]

\* C8 witness: on the IntoIter of [1,2,3], next, next_back, next yielded
\* 1, 3, 2 and a further next returned None.
C8_Witness ==
    /\ mode = "into_iter"
    /\ orig = <<1, 2, 3>>
    /\ calls = << [op |-> "next", val |-> 1], [op |-> "next_back", val |-> 3],
                  [op |-> "next", val |-> 2], [op |-> "next", val |-> None] >>

\* C9: dropping an IntoIter or a Drain after any number of next/next_back
\* calls destroys every element not yet yielded exactly once and destroys
\* no element that was yielded; nothing is destroyed before the drop.
C9_DropDestroysRest ==
    /\ mode \in {"into_iter", "drain"} =>
         \A k \in 1..Len(orig) : TimesDestroyed(orig[k]) = 0
    /\ lastL \in {"drop_into_iter", "drop_drain"} =>
         /\ \A k \in 1..Len(orig) :
               TimesDestroyed(orig[k]) = IF orig[k] \in Yielded THEN 0 ELSE 1
         /\ l.live = {}

\* C9 witness: an IntoIter over three elements was dropped after one
\* next() and one next_back(), which destroyed the middle element.
C9_Witness ==
    /\ lastL = "drop_into_iter"
    /\ orig = <<1, 2, 3>>
    /\ Yielded = {1, 3}
    /\ destroyed = <<2>>

\* C10: drain() sets the List's length to 0 before the Drain yields
\* anything while the former elements stay in their slots; after the Drain
\* is dropped the List has length 0 and its capacity unchanged, and it
\* accepts further pushes.
C10_DrainEmptiesList ==
    /\ lastL = "drain" =>
         /\ l.len = 0
         /\ calls = << >>
         /\ l.buf = lpre.buf
         /\ orig = deref(lpre)
         /\ it = [front |-> 0, back |-> lpre.len]
    /\ mode = "drain" =>
         /\ l.len = 0
         /\ cap(l) = cap(lpre)
         /\ \A k \in 1..Len(orig) : l.buf.slots[k - 1] = orig[k]
    /\ lastL = "drop_drain" =>
         /\ mode = "list"
         /\ l.len = 0
         /\ deref(l) = << >>
         /\ cap(l) = cap(lpre)
         /\ LET p == push(l, npush + 1)
            IN  /\ deref(p) = <<npush + 1>>
                /\ cap(l) > 0 => cap(p) = cap(l)
    /\ (lastL = "push" /\ lpre.len = 0) => deref(l) = <<npush>>

\* C10 witness: three elements were drained, the Drain was dropped early
\* and a further value was pushed into the emptied List of capacity 4.
C10_Witness ==
    /\ mode = "list"
    /\ lastL = "push"
    /\ destroyed # << >>
    /\ cap(lpre) = 4
    /\ lpre.len = 0
    /\ deref(l) = <<4>>
    /\ cap(l) = 4

(***************************************************************************)
(* Observations of a List used by the properties                           *)
(***************************************************************************)

\* Bound on the length of the runs of List calls that are replayed from a
\* new List.
MaxRun == 5

Reverse(sq) == [k \in 1..Len(sq) |-> sq[Len(sq) + 1 - k]]

\* The List after the calls of `run` on List_new; the k-th call inserts the
\* value k when it inserts ("remove" and "insert" act at index 0, and a
\* remove on an empty List, which panics, is left out).
RECURSIVE RunList(_, _)
RunList(run, k) ==
    IF k = 0 THEN List_new
    ELSE LET s == RunList(run, k - 1)
         IN  IF run[k] = "push" THEN push(s, k)
             ELSE IF run[k] = "insert" THEN insert(s, 0, k).l
             ELSE IF run[k] = "pop" THEN pop(s).l
             ELSE IF s.len = 0 THEN s ELSE remove(s, 0).l

\* The runs of at most MaxRun calls.
Runs ==
    UNION {[1..n -> {"push", "insert", "pop", "remove"}] : n \in 0..MaxRun}

\* The List holding 1..n after n pushes.
RECURSIVE Pushed(_)
Pushed(n) == IF n = 0 THEN List_new ELSE push(Pushed(n - 1), n)

\* pop on every empty List that a run leaves returns None and changes
\* nothing.
PopOnEveryEmptyList ==
    \A run \in Runs :
        LET s == RunList(run, Len(run))
        IN  s.len = 0 => pop(s) = [l |-> s, ret |-> None]

\* Popping right after n pushes of 1..n yields n, ..., 1 and then None,
\* for every n up to one past the largest capacity 2^MaxExp.
PushesThenPops ==
    \A n \in 0..(Pow2(MaxExp) + 1) :
        pop_loop(Pushed(n)) = Reverse([k \in 1..n |-> k])

\* What Display is to write for the elements sq: '[', the elements
\* separated by ',', ']'.
RECURSIVE Separated(_)
Separated(sq) ==
    IF sq = << >> THEN << >>
    ELSE IF Len(sq) = 1 THEN sq
    ELSE <<Head(sq), Comma>> \o Separated(Tail(sq))

Rendered(sq) == <<LBracket>> \o Separated(sq) \o <<RBracket>>

(***************************************************************************)
(* Properties of the List                                                  *)
(***************************************************************************)

\* C11: the List is a last-in-first-out stack under push and pop: a push
\* puts its value on top, a pop returns the top (the most recently pushed
\* value not yet popped) and takes it off, and popping right after n
\* pushes of v1..vn yields vn, ..., v1 and then None, growth included.
C11_ListIsStack ==
    /\ lastL = "push" => deref(l) = Append(deref(lpre), lres.val)
    /\ lastL = "pop" =>
         IF lpre.len = 0
         THEN lres.ret = None /\ deref(l) = << >>
         ELSE /\ lres.ret = deref(lpre)[lpre.len]
              /\ deref(l) = SubSeq(deref(lpre), 1, lpre.len - 1)
    /\ LET p == pop(push(l, npush + 1))
       IN  p.ret = npush + 1 /\ deref(p.l) = deref(l)
    /\ PushesThenPops

\* C11 witness: three values were pushed (growing the buffer to 4) and
\* popped again; the last pop returned the first value pushed.
C11_Witness ==
    /\ lastL = "pop"
    /\ lres.ret = 1
    /\ npush = 3
    /\ l.len = 0
    /\ cap(l) = 4
    /\ l.buf.slots[1] = 2
    /\ l.buf.slots[2] = 3

\* C12: for every i with 0 <= i <= length, after insert(i, v): get(i) is
\* v, the element that was at each index j >= i is at j+1, the elements at
\* the indices < i are unchanged and length has grown by exactly 1,
\* whether the insert grew the buffer or not.
C12_InsertShifts ==
    /\ \A i \in 0..l.len :
         LET r == insert(l, i, npush + 1)
         IN  /\ ~r.panic
             /\ get(r.l, i).ret = npush + 1
             /\ \A j \in i..(l.len - 1) : get(r.l, j + 1).ret = get(l, j).ret
             /\ \A j \in 0..(i - 1) : get(r.l, j).ret = get(l, j).ret
             /\ r.l.len = l.len + 1
    /\ (lastL = "insert" /\ ~lres.panic) =>
         /\ get(l, lres.idx).ret = lres.val
         /\ \A j \in lres.idx..(lpre.len - 1) :
               get(l, j + 1).ret = get(lpre, j).ret
         /\ \A j \in 0..(lres.idx - 1) : get(l, j).ret = get(lpre, j).ret
         /\ l.len = lpre.len + 1

\* C12 witness: an insert in the middle of a full List of capacity 2 grew
\* the buffer to 4.
C12_Witness ==
    /\ lastL = "insert"
    /\ ~lres.panic
    /\ lpre.len = 2
    /\ cap(lpre) = 2
    /\ lres.idx = 1
    /\ cap(l) = 4
    /\ l.len = 3

\* C13: for every i with 0 <= i <= length, insert(i, v) immediately
\* followed by remove(i) returns v and restores the length and the
\* element at every index.
C13_InsertThenRemove ==
    \A i \in 0..l.len :
        LET a == insert(l, i, npush + 1)
            r == remove(a.l, i)
        IN  /\ ~a.panic
            /\ ~r.panic
            /\ r.ret = npush + 1
            /\ r.l.len = l.len
            /\ deref(r.l) = deref(l)

\* C13 witness: a remove returned the value inserted last, from the middle
\* index at which the List held it.
C13_Witness ==
    /\ lastL = "remove"
    /\ ~lres.panic
    /\ lres.ret = npush
    /\ lres.idx = 1
    /\ lpre.len = 3
    /\ get(lpre, 1).ret = npush
    /\ l.len = 2

\* C14: for every i < length, remove(i) returns the element that was at
\* index i, moves the element that was at each index j > i to j-1, leaves
\* the elements at the indices < i unchanged, decreases length by exactly
\* 1 and leaves capacity unchanged.
C14_RemoveShifts ==
    /\ \A i \in 0..(l.len - 1) :
         LET r == remove(l, i)
         IN  /\ ~r.panic
             /\ r.ret = get(l, i).ret
             /\ \A j \in (i + 1)..(l.len - 1) :
                   get(r.l, j - 1).ret = get(l, j).ret
             /\ \A j \in 0..(i - 1) : get(r.l, j).ret = get(l, j).ret
             /\ r.l.len = l.len - 1
             /\ cap(r.l) = cap(l)
    /\ (lastL = "remove" /\ ~lres.panic) =>
         /\ lres.ret = get(lpre, lres.idx).ret
         /\ \A j \in (lres.idx + 1)..(lpre.len - 1) :
               get(l, j - 1).ret = get(lpre, j).ret
         /\ \A j \in 0..(lres.idx - 1) : get(l, j).ret = get(lpre, j).ret
         /\ l.len = lpre.len - 1
         /\ cap(l) = cap(lpre)

\* C14 witness: a remove at index 0 of a List of three elements.
C14_Witness ==
    /\ lastL = "remove"
    /\ ~lres.panic
    /\ lres.idx = 0
    /\ lpre.len = 3
    /\ cap(l) = 4
    /\ deref(l) = SubSeq(deref(lpre), 2, 3)

\* C15: insert(length, v) produces the same state as push(v): the same
\* length, capacity and element at every index.
C15_InsertAtEndIsPush ==
    /\ LET r == insert(l, l.len, npush + 1)
       IN  ~r.panic /\ r.l = push(l, npush + 1)
    /\ (lastL = "insert" /\ ~lres.panic /\ lres.idx = lpre.len) =>
         l = push(lpre, lres.val)

\* C15 witness: an insert at index length of a full List of capacity 2.
C15_Witness ==
    /\ lastL = "insert"
    /\ ~lres.panic
    /\ lres.idx = lpre.len
    /\ lpre.len = 2
    /\ cap(lpre) = 2
    /\ cap(l) = 4

\* C16: get(i) returns the element at index i when i < length and None
\* for every i >= length, slots below the capacity that held popped or
\* removed elements included; get never fails and changes nothing.
C16_GetChecksLength ==
    /\ \A i \in 0..(cap(l) + 1) :
         /\ get(l, i).ret = IF i < l.len THEN deref(l)[i + 1] ELSE None
         /\ get(l, i).l = l
    /\ lastL = "get" =>
         /\ l = lpre
         /\ ~lres.panic
         /\ lres.ret = IF lres.idx < l.len THEN deref(l)[lres.idx + 1]
                        ELSE None

\* C16 witness: get of an index below the capacity whose slot still holds
\* the bits of a popped or removed element returned None.
C16_Witness ==
    /\ lastL = "get"
    /\ lres.idx >= l.len
    /\ lres.idx < cap(l)
    /\ l.buf.slots[lres.idx] # Junk
    /\ lres.ret = None

\* C17: insert(i, v) with i > length and remove(i) with i >= length fail
\* with the "index out of bounds" panic, and at the point of failure
\* length, capacity and every stored element are as before the call.
C17_OutOfBoundsPanics ==
    /\ \A i \in (l.len + 1)..(l.len + 2) :
         insert(l, i, npush + 1) = [l |-> l, panic |-> TRUE]
    /\ \A i \in l.len..(l.len + 1) :
         remove(l, i).panic /\ remove(l, i).l = l
    /\ (lres.panic /\ lastL # "index") =>
         /\ lastL \in {"insert", "remove"}
         /\ IF lastL = "insert" THEN lres.idx > lpre.len
            ELSE lres.idx >= lpre.len
         /\ l = lpre
         /\ mode = "panicked"
    /\ (lastL \in {"insert", "remove"} /\ ~lres.panic) =>
         IF lastL = "insert" THEN lres.idx <= lpre.len
         ELSE lres.idx < lpre.len

\* C17 witness: remove(0) panicked on a List that had been emptied and
\* still has its buffer.
C17_Witness ==
    /\ lastL = "remove"
    /\ lres.panic
    /\ lres.idx = 0
    /\ l.len = 0
    /\ cap(l) >= 2

\* C18: dequeue() on a Queue of length 0 and pop() on a List of length 0
\* return None and leave the whole state unchanged, however often they
\* are repeated and whatever calls emptied the container.
C18_EmptyStaysPut ==
    /\ q.len = 0 => dequeue(q) = [q |-> q, ret |-> None]
    /\ (lastOp = "dequeue" /\ pre.len = 0) => (ret = None /\ q = pre)
    /\ PopOnEveryEmptyList

\* C18 witness: a second dequeue in a row returned None on a queue that
\* was emptied with its head away from slot 0.
C18_Witness ==
    /\ lastOp = "dequeue"
    /\ ret = None
    /\ Len(hist) >= 2
    /\ hist[Len(hist) - 1] = [op |-> "dequeue", val |-> None]
    /\ q.front > 0
    /\ cap(q) = 4

\* C19: in every reachable Queue state Display renders exactly the len
\* live elements in logical front-to-back order as '[', the elements
\* separated by ',', ']'.
C19_DisplayRendersContents ==
    /\ fmt(q).out = Rendered(Contents(q))
    /\ lastOp = "fmt" => out = Rendered(Contents(q))

\* C20 as stated: a destroyed List destroys its live elements in index
\* order, index 0 first.
C20_DropInIndexOrder ==
    lastL = "drop_list" => destroyed = deref(lpre)

\* C20 as amended: a destroyed List destroys its live elements in
\* reverse index order (index length-1 first, index 0 last), and when the
\* buffer is released no live element is left.
C20_DropInReverseOrder ==
    /\ List_drop(l).destroyed = Reverse(deref(l))
    /\ List_drop(l).l.len = 0
    /\ List_drop(l).l.live = {}
    /\ lastL = "drop_list" =>
         /\ destroyed = Reverse(deref(lpre))
         /\ l.len = 0
         /\ l.live = {}
         /\ mode = "dropped"
         /\ RawList_drop(l.buf) = (cap(lpre) # 0)

\* C20 witness: a List that held three elements was destroyed.
C20_Witness ==
    /\ lastL = "drop_list"
    /\ lpre.len = 3
    /\ Len(destroyed) = 3
    /\ destroyed[1] = deref(lpre)[3]
    /\ destroyed[3] = deref(lpre)[1]

(***************************************************************************)
(* Steps of the Queue                                                      *)
(***************************************************************************)

\* What the growth of the full queue s of capacity c >= 1 and front f is
\* to do: nothing is moved when f = 0, [f, c) goes to [c + f, 2c) when it
\* is the shorter segment, [0, f) goes to [c, c + f) otherwise.
GrowsAsDescribed(s) ==
    LET c == cap(s)
        f == s.front
        g == grow(s)
    IN  /\ cap(g) = 2 * c
        /\ g.len = s.len
        /\ IF f = 0
           THEN /\ g.front = 0
                /\ g.live = s.live
                /\ \A i \in 0..(c - 1) : g.buf.slots[i] = s.buf.slots[i]
           ELSE IF c - f < f
           THEN /\ g.front = c + f
                /\ g.live = (0..(f - 1)) \cup ((c + f)..(2 * c - 1))
                /\ \A i \in f..(c - 1) : g.buf.slots[c + i] = s.buf.slots[i]
                /\ \A i \in 0..(f - 1) : g.buf.slots[i] = s.buf.slots[i]
           ELSE /\ g.front = f
                /\ g.live = f..(c + f - 1)
                /\ \A i \in 0..(f - 1) : g.buf.slots[c + i] = s.buf.slots[i]
                /\ \A i \in f..(c - 1) : g.buf.slots[i] = s.buf.slots[i]
        /\ Cardinality(g.live \ s.live) = IF c - f < f THEN c - f ELSE f

\* Every full queue of capacity 2^0 .. 2^MaxExp, whatever its front, grows
\* as described.
EveryFullQueueGrowsAsDescribed ==
    \A e \in 0..MaxExp : \A f \in 0..(Pow2(e) - 1) :
        GrowsAsDescribed(FullQueue(Pow2(e), f))

\* C27: a full Queue of capacity c >= 1 and front f grows by moving
\* nothing when f = 0, the front segment [f, c) to [c + f, 2c) with front
\* c + f when c - f < f, and the wrapped segment [0, f) to [c, c + f) with
\* front unchanged otherwise; the segment moved is never the longer one
\* (capacity 4: front 2 stays 2, front 3 becomes 7).
C27_GrowMovesShorterSegment ==
    /\ EveryFullQueueGrowsAsDescribed
    /\ grow(FullQueue(4, 2)).front = 2
    /\ grow(FullQueue(4, 3)).front = 7
    /\ (is_full(q) /\ cap(q) >= 1) => GrowsAsDescribed(q)
    /\ (lastOp = "enqueue" /\ is_full(pre) /\ cap(pre) >= 1) =>
         /\ q.front = grow(pre).front
         /\ cap(q) = 2 * cap(pre)
         /\ Contents(q) = Append(Contents(pre), hist[Len(hist)].val)

\* C27 witness: an enqueue grew a full queue of capacity 4 whose front
\* was 3; the front segment of one element moved and front became 7.
C27_Witness ==
    /\ lastOp = "enqueue"
    /\ pre.len = 4
    /\ cap(pre) = 4
    /\ pre.front = 3
    /\ cap(q) = 8
    /\ q.front = 7
    /\ q.buf.slots[7] = pre.buf.slots[3]

\* C28: every dequeue that returns an element returns the one at slot
\* front, sets front to (front + 1) mod capacity and decreases len by 1,
\* also when the queue becomes empty; capacity and the slots are
\* unchanged.
C28_DequeueAdvancesFront ==
    /\ (lastOp = "dequeue" /\ ret # None) =>
         /\ ret = pre.buf.slots[pre.front]
         /\ q.front = (pre.front + 1) % cap(pre)
         /\ q.len = pre.len - 1
         /\ q.buf = pre.buf
    /\ q.len > 0 =>
         LET r == dequeue(q)
         IN  /\ r.ret = q.buf.slots[q.front]
             /\ r.q.front = (q.front + 1) % cap(q)
             /\ r.q.len = q.len - 1
             /\ r.q.buf = q.buf

\* C28 witness: a dequeue took the last element from slot capacity - 1;
\* front wrapped to 0 and the queue is empty.
C28_Witness ==
    /\ lastOp = "dequeue"
    /\ ret # None
    /\ cap(pre) = 4
    /\ pre.front = 3
    /\ pre.len = 1
    /\ q.front = 0
    /\ q.len = 0

\* C29: enqueue(v) on a Queue with len < capacity, one emptied with a
\* nonzero front included, writes v only to slot (front + len) mod
\* capacity, increases len by 1 and leaves front, capacity and every other
\* slot unchanged.
C29_EnqueueWritesTail ==
    /\ (lastOp = "enqueue" /\ pre.len < cap(pre)) =>
         /\ q.buf = [pre.buf EXCEPT
                       !.slots[(pre.front + pre.len) % cap(pre)] =
                           hist[Len(hist)].val]
         /\ q.len = pre.len + 1
         /\ q.front = pre.front
    /\ q.len < cap(q) =>
         LET e == enqueue(q, NextVal)
         IN  /\ e.buf = [q.buf EXCEPT
                           !.slots[(q.front + q.len) % cap(q)] = NextVal]
             /\ e.len = q.len + 1
             /\ e.front = q.front

\* C29 witness: an enqueue on a queue emptied with its front at slot 3
\* wrote at slot 3.
C29_Witness ==
    /\ lastOp = "enqueue"
    /\ pre.len = 0
    /\ pre.front = 3
    /\ cap(pre) = 4
    /\ q.len = 1
    /\ q.front = 3
    /\ q.buf.slots[3] = hist[Len(hist)].val

(***************************************************************************)
(* Capacity, size_hint and the contiguous view                             *)
(***************************************************************************)

\* The capacity an insertion is to leave: doubled (0 -> 1) when it found
\* len = capacity, unchanged otherwise.
AfterInsertion(c, len) == IF len = c THEN (IF c = 0 THEN 1 ELSE 2 * c) ELSE c

\* On every List that a run of calls leaves, push and insert change the
\* capacity as an insertion is to, and pop, remove, get and drain leave it
\* unchanged.
ListCapacitySteps ==
    \A run \in Runs :
        LET s == RunList(run, Len(run))
            v == Len(run) + 1
        IN  /\ cap(push(s, v)) = AfterInsertion(cap(s), s.len)
            /\ \A i \in 0..s.len :
                  cap(insert(s, i, v).l) = AfterInsertion(cap(s), s.len)
            /\ cap(pop(s).l) = cap(s)
            /\ \A i \in 0..(s.len - 1) : cap(remove(s, i).l) = cap(s)
            /\ \A i \in 0..(cap(s) + 1) : cap(get(s, i).l) = cap(s)
            /\ cap(drain(s).l) = cap(s)

\* C23: in every step the capacity stays or grows, and it grows only when
\* an insertion (push, insert, enqueue, requeue) finds len = capacity:
\* from 0 to 1, otherwise from c to 2c; pop, remove, get, dequeue, peek
\* and drain never change it.
C23_CapacityOnlyDoubles ==
    /\ lastOp \in {"enqueue", "requeue"} =>
         cap(q) = AfterInsertion(cap(pre), pre.len)
    /\ lastOp \notin {"enqueue", "requeue"} => cap(q) = cap(pre)
    /\ cap(q) >= cap(pre)
    /\ cap(enqueue(q, NextVal)) = AfterInsertion(cap(q), q.len)
    /\ cap(requeue(q, NextVal)) = AfterInsertion(cap(q), q.len)
    /\ cap(dequeue(q).q) = cap(q)
    /\ cap(peek(q).q) = cap(q)
    /\ ListCapacitySteps

\* C23 witness: a requeue found a queue of capacity 2 full, with its
\* front at slot 1 after an earlier dequeue, and left it with capacity 4.
C23_Witness ==
    /\ lastOp = "requeue"
    /\ pre.len = 2
    /\ cap(pre) = 2
    /\ pre.front = 1
    /\ cap(q) = 4
    /\ \E i \in 1..Len(hist) : hist[i].op = "dequeue" /\ hist[i].val # None

\* C25: for an IntoIter or a Drain created over n elements, size_hint
\* is (k, Some(k)) with k the number of elements not yet yielded: n at
\* first, one less after each next or next_back that yields, 0 for good
\* after exhaustion; the front cursor never passes the back cursor.
C25_SizeHintCountsRemaining ==
    /\ lastL \in {"into_iter", "drain"} =>
         size_hint(it) = <<Len(deref(lpre)), Len(deref(lpre))>>
    /\ mode \in {"into_iter", "drain"} =>
         LET k == Len(orig) - Cardinality({i \in 1..Len(calls) :
                                              calls[i].val # None})
         IN  /\ size_hint(it) = <<k, k>>
             /\ k >= 0
             /\ it.front <= it.back
             /\ k = 0 =>
                  /\ next(it, l.buf.slots) =
                        [it |-> it, ret |-> None, slot |-> None]
                  /\ next_back(it, l.buf.slots) =
                        [it |-> it, ret |-> None, slot |-> None]
             /\ k > 0 =>
                  /\ size_hint(next(it, l.buf.slots).it) = <<k - 1, k - 1>>
                  /\ size_hint(next_back(it, l.buf.slots).it)
                       = <<k - 1, k - 1>>

\* C25 witness: an IntoIter over three elements was consumed from both
\* ends and called twice more after exhaustion; size_hint is (0, Some(0)).
C25_Witness ==
    /\ mode = "into_iter"
    /\ Len(orig) = 3
    /\ Len(calls) = 5
    /\ calls[1].op = "next"
    /\ calls[2].op = "next_back"
    /\ calls[3].val # None
    /\ calls[4] = [op |-> "next", val |-> None]
    /\ calls[5] = [op |-> "next_back", val |-> None]
    /\ size_hint(it) = <<0, 0>>

\* C26: the List's contiguous view has exactly length elements, its i-th
\* element equals get(i) for every i < length, and indexing it at any
\* i >= length fails with "index out of bounds".
C26_ViewMatchesGet ==
    /\ Len(deref(l)) = l.len
    /\ \A i \in 0..(l.len - 1) :
         /\ deref(l)[i + 1] = get(l, i).ret
         /\ slice_index(l, i) = [ret |-> get(l, i).ret, panic |-> FALSE]
    /\ \A i \in l.len..(cap(l) + 1) : slice_index(l, i).panic
    /\ lastL = "index" =>
         /\ l = lpre
         /\ lres.panic = (lres.idx >= l.len)
         /\ ~lres.panic => lres.ret = get(l, lres.idx).ret

\* C26 witness: indexing at length, a slot below the capacity that still
\* holds the bits of an element taken out, panicked.
C26_Witness ==
    /\ lastL = "index"
    /\ lres.panic
    /\ lres.idx = l.len
    /\ l.len >= 1
    /\ lres.idx < cap(l)
    /\ l.buf.slots[lres.idx] # Junk
    /\ mode = "panicked"

(***************************************************************************)
(* Ownership of the elements and of the allocation                         *)
(***************************************************************************)

\* The slots whose elements the List owns: while a Drain borrows the List
\* the elements between its cursors are the Drain's.
ListOwned ==
    IF mode = "drain" THEN l.live \ (it.front..(it.back - 1)) ELSE l.live

HeapCalls(b, c) == Cardinality({i \in 1..Len(b.heap) : b.heap[i] = c})

\* The number of live allocations of buffer b.
LiveAllocs(b) == HeapCalls(b, "alloc") - HeapCalls(b, "dealloc")

\* The runs of at most MaxRun enqueue, requeue and dequeue calls.
QRuns == UNION {[1..n -> {"e", "r", "d"}] : n \in 0..MaxRun}

\* The Queue after the calls of run on a new Queue; the k-th call inserts
\* the value k when it inserts.
QueueAfter(run) ==
    RunOps(Queue_new,
           [k \in 1..Len(run) |->
              IF run[k] = "d" THEN <<"d">> ELSE <<run[k], k>>])

\* Every Queue that a run leaves has one live allocation when its capacity
\* is positive and none otherwise; destroying it takes out every element
\* and then releases the allocation once.
QueueReleasedOnce ==
    \A run \in QRuns :
        LET s == QueueAfter(run)
            d == Queue_drop(s)
            b == RawList_dropped(d.q.buf)
        IN  /\ LiveAllocs(s.buf) = IF cap(s) > 0 THEN 1 ELSE 0
            /\ HeapCalls(s.buf, "dealloc") = 0
            /\ d.destroyed = Contents(s)
            /\ d.q.live = {}
            /\ LiveAllocs(b) = 0
            /\ HeapCalls(b, "dealloc") = IF cap(s) > 0 THEN 1 ELSE 0

\* C22: there is exactly one live allocation when the capacity is
\* positive and none when it is 0, and over the life of a List, of a
\* Queue, or of a List turned into an IntoIter that is dropped after any
\* number of next and next_back calls, the allocation is released exactly
\* once, after the elements not yet yielded have been destroyed, with no
\* call after the release and no second release by the source List.
C22_AllocationReleasedOnce ==
    /\ mode # "dropped" =>
         /\ LiveAllocs(l.buf) = IF cap(l) > 0 THEN 1 ELSE 0
         /\ HeapCalls(l.buf, "dealloc") = 0
    /\ mode = "dropped" =>
         /\ LiveAllocs(l.buf) = 0
         /\ HeapCalls(l.buf, "dealloc") = IF cap(l) > 0 THEN 1 ELSE 0
         /\ cap(l) > 0 => l.buf.heap[Len(l.buf.heap)] = "dealloc"
         /\ l.live = {}
         /\ lastL \in {"drop_list", "drop_into_iter"}
         /\ \A i \in lpre.live : TimesDestroyed(lpre.buf.slots[i]) = 1
         /\ l.buf.slots = lpre.buf.slots
    /\ mode = "list" =>
         LET d == List_drop(l)
         IN  /\ d.l.live = {}
             /\ LiveAllocs(RawList_dropped(d.l.buf)) = 0
    /\ mode = "into_iter" =>
         /\ Len(IntoIter_drop(it, l.buf.slots)) = Cardinality(l.live)
         /\ LiveAllocs(RawList_dropped(l.buf)) = 0
    /\ QueueReleasedOnce

\* C22 witness: an IntoIter over three elements in a buffer of capacity 4
\* yielded from both ends and was dropped with an element left; the one
\* allocation was released at the end.
C22_Witness ==
    /\ mode = "dropped"
    /\ lastL = "drop_into_iter"
    /\ Len(orig) = 3
    /\ Len(calls) = 2
    /\ calls[1].op = "next_back"
    /\ calls[2].op = "next"
    /\ Cardinality(lpre.live) = 1
    /\ l.buf.heap = <<"alloc", "realloc", "realloc", "dealloc">>

\* Every value put into the List has been handed back or destroyed at
\* most once, not at all while the List or an iterator holds it, and
\* exactly once when the List or its IntoIter is gone.
ListValuesOnce ==
    \A v \in 1..npush :
        LET n == CopiesIn(v, handed) + TimesDestroyed(v)
        IN  /\ n <= 1
            /\ (\E i \in l.live : l.buf.slots[i] = v) => n = 0
            /\ mode = "dropped" => n = 1

\* How often the Queue has handed back or destroyed the value v.
QueueTimesGone(v) ==
    Cardinality({j \in 1..Len(hist) :
                   hist[j].op = "dequeue" /\ hist[j].val = v})
      + Cardinality({j \in 1..Len(qdestroyed) : qdestroyed[j] = v})

\* The same for every value put into the Queue.
QueueValuesOnce ==
    \A i \in 1..Len(hist) :
        hist[i].op \in {"enqueue", "requeue"} =>
            LET n == QueueTimesGone(hist[i].val)
            IN  /\ n <= 1
                /\ (\E k \in q.live : q.buf.slots[k] = hist[i].val) => n = 0
                /\ lastOp = "drop" => n = 1

\* C21: over the whole life of a List or a Queue, destruction included,
\* every value put into the container is handed back to the caller
\* exactly once or destroyed exactly once, never both and never neither;
\* the Queue's destruction takes the remaining elements out by repeated
\* dequeue before the buffer is released.
C21_EachValueOnce ==
    /\ ListValuesOnce
    /\ QueueValuesOnce
    /\ lastOp = "drop" =>
         /\ q.live = {}
         /\ q.len = 0
         /\ Queue_drop(pre).destroyed = Contents(pre)

(***************************************************************************)
(* Failure of growth                                                       *)
(***************************************************************************)

\* C30: a RawList growth whose new byte size would exceed isize::MAX, or
\* for which the allocator reports failure, ends in a panic or an abort,
\* never in a returned value, and at that point the buffer (capacity,
\* allocation and bytes) and the length of the List that owns it are as
\* they were before the attempt.
C30_FailedGrowthChangesNothing ==
    /\ cap(l) * ElemSize <= IsizeMax
    /\ \A alloc_ok \in BOOLEAN :
         LET g == RawList_grow_checked(l.buf, alloc_ok)
             new_cap == IF cap(l) = 0 THEN 1 ELSE 2 * cap(l)
         IN  /\ (new_cap * ElemSize > IsizeMax \/ ~alloc_ok) =>
                  /\ g.fatal \in {"panic", "abort"}
                  /\ g.buf = l.buf
             /\ g.fatal = "none" =>
                  /\ alloc_ok
                  /\ new_cap * ElemSize <= IsizeMax
                  /\ g.buf = RawList_grow(l.buf)
             /\ l.len = cap(l) =>
                  /\ push_checked(l, npush + 1, alloc_ok).fatal = g.fatal
                  /\ g.fatal # "none" =>
                       push_checked(l, npush + 1, alloc_ok).l = l
                  /\ \A i \in 0..l.len :
                       /\ insert_checked(l, i, npush + 1, alloc_ok).fatal
                            = g.fatal
                       /\ g.fatal # "none" =>
                            insert_checked(l, i, npush + 1, alloc_ok).l = l
    /\ mode \in {"panicked", "aborted"} =>
         /\ lpre.len = cap(lpre)
         /\ l.buf = lpre.buf
         /\ l.len = lpre.len
         /\ l = lpre
         /\ mode = "panicked" => 2 * cap(l) * ElemSize > IsizeMax

\* C30 witness: the push into a full List of capacity 16, whose growth to
\* 32 elements of 4 bytes would exceed isize::MAX = 127, panicked after
\* five growths had succeeded.
C30_Witness ==
    /\ mode = "panicked"
    /\ lastL = "push"
    /\ l.len = 16
    /\ cap(l) = 16
    /\ l.buf.heap = <<"alloc", "realloc", "realloc", "realloc", "realloc">>
    /\ l.buf.slots[15] = 16

(***************************************************************************)
(* Display and ownership                                                   *)
(***************************************************************************)

\* How often the value v has been destroyed by Queue calls so far.
QueueTimesDestroyed(v) ==
    Cardinality({j \in 1..Len(qdestroyed) : qdestroyed[j] = v})

\* C31: formatting a Queue with Display changes neither len, front,
\* capacity nor any stored element and destroys no stored element: after
\* it every live element has been destroyed zero times, a later dequeue
\* hands back a value that was never destroyed and the destruction of the
\* Queue destroys each remaining element for the first time.
C31_DisplayDestroysNothing ==
    /\ lastOp = "fmt" =>
         /\ q.len = pre.len
         /\ q.front = pre.front
         /\ cap(q) = cap(pre)
         /\ q.buf.slots = pre.buf.slots
         /\ q.live = pre.live
         /\ fmt(pre).destroyed = << >>
    /\ \A k \in q.live : QueueTimesDestroyed(q.buf.slots[k]) = 0
    /\ (lastOp = "dequeue" /\ ret # None) => QueueTimesDestroyed(ret) = 0
    /\ lastOp = "drop" =>
         \A j \in 1..Len(Queue_drop(pre).destroyed) :
             QueueTimesDestroyed(Queue_drop(pre).destroyed[j]) = 1

\* What Display leaves alone: the fields of the Queue and the bits and the
\* ownership of every slot.
DisplayKeepsQueue ==
    lastOp = "fmt" =>
        /\ q = pre
        /\ fmt(pre).q = pre

(***************************************************************************)
(* Drain and ownership                                                     *)
(***************************************************************************)

\* The slots whose elements the List owns, and those the iterator has yet
\* to yield.
ListSlots == 0..(l.len - 1)
IterSlots == it.front..(it.back - 1)

\* How often the value v has been handed back or destroyed.
TimesGone(v) == CopiesIn(v, handed) + TimesDestroyed(v)

\* C32: from the return of drain() until the Drain is gone the List's
\* length is 0, so no slot is owned both by the List and by the Drain;
\* whether the Drain is consumed, dropped early or leaked, no value is
\* handed back or destroyed more than once when the List is used or
\* destroyed afterwards.
C32_DrainSharesNothing ==
    /\ mode = "drain" =>
         /\ l.len = 0
         /\ ListSlots \cap IterSlots = {}
         /\ List_drop(l).destroyed = << >>
         /\ pop(l).ret = None
         /\ l.live = IterSlots
    /\ lastL \in {"drop_drain", "forget_drain"} =>
         /\ l.len = 0
         /\ l.live = {}
         /\ List_drop(l).destroyed = << >>
    /\ lastL = "forget_drain" =>
         /\ \A k \in IterSlots : TimesGone(l.buf.slots[k]) = 0
    /\ \A v \in 1..npush : TimesGone(v) <= 1
    /\ mode = "list" => \A k \in l.live : TimesGone(l.buf.slots[k]) = 0

\* C32 witness: of three drained elements one was yielded and two were
\* leaked with the Drain; a fourth value was pushed into the emptied List,
\* and the destruction of the List destroyed that value alone.
C32_Witness ==
    /\ mode = "dropped"
    /\ lastL = "drop_list"
    /\ npush = 4
    /\ handed = SetToBag({1})
    /\ destroyed = <<4>>
    /\ l.buf.slots[1] = 2
    /\ l.buf.slots[2] = 3

\* The other two ends of a Drain: all three elements were yielded before the
\* Drain was dropped, or the Drain was dropped after one, and the List was
\* destroyed afterwards.
DrainConsumedThenListDropped ==
    /\ mode = "dropped"
    /\ Len(orig) = 3
    /\ handed = SetToBag({1, 2, 3})
    /\ destroyed = << >>

DrainDroppedEarlyThenListDropped ==
    /\ mode = "dropped"
    /\ Len(orig) = 3
    /\ handed = SetToBag({3})
    /\ destroyed = <<1, 2>>

(***************************************************************************)
(* The slots each operation reads and writes                               *)
(***************************************************************************)

\* The slots ptr.add(start) .. ptr.add(start + count - 1).
Slots(start, count) == start..(start + count - 1)

\* The record of the accesses of one call: the capacity of the buffer when
\* the slots are accessed (after the growth, if the call grows), the slots
\* read and the slots written.
Touch(c, r, w) == [cap |-> c, reads |-> r, writes |-> w]

\* List::push: ptr::write at ptr.add(len) after the growth.
push_touch(s) ==
    LET g == IF s.len = cap(s)
             THEN [s EXCEPT !.buf = RawList_grow(s.buf)] ELSE s
    IN  Touch(cap(g), {}, {g.len})

\* List::get: the reference to ptr.add(i) when i < len.
get_touch(s, i) ==
    IF i >= s.len THEN Touch(cap(s), {}, {})
    ELSE Touch(cap(s), {i}, {})

\* List::pop: ptr::read at ptr.add(len) after len -= 1.
pop_touch(s) ==
    IF s.len = 0 THEN Touch(cap(s), {}, {})
    ELSE Touch(cap(s), {s.len - 1}, {})

\* List::insert: ptr::copy of len - index slots from index to index + 1,
\* then ptr::write at index, after the growth.
insert_touch(s, index) ==
    IF ~(index <= s.len) THEN Touch(cap(s), {}, {})
    ELSE LET g == IF s.len = cap(s)
                  THEN [s EXCEPT !.buf = RawList_grow(s.buf)] ELSE s
             c == g.len - index
         IN  Touch(cap(g), Slots(index, c), Slots(index + 1, c) \cup {index})

\* List::remove: ptr::read at index, then ptr::copy of len - index slots
\* from index + 1 to index, with len already decremented.
remove_touch(s, index) ==
    IF ~(index < s.len) THEN Touch(cap(s), {}, {})
    ELSE LET n == s.len - 1
             c == n - index
         IN  Touch(cap(s), {index} \cup Slots(index + 1, c), Slots(index, c))

\* Queue::grow: the source and the destination of its ptr::copy, in the
\* grown buffer.
grow_touch(s) ==
    LET front_len == cap(s) - s.front
        back_len == cap(s) - front_len
        g == [s EXCEPT !.buf = RawList_grow(s.buf)]
    IN  IF s.front = 0 THEN Touch(cap(g), {}, {})
        ELSE IF front_len < back_len
        THEN LET new_front == cap(g) - front_len
             IN  Touch(cap(g), Slots(s.front, front_len),
                       Slots(new_front, front_len))
        ELSE LET shuffle_index == s.front + front_len
             IN  Touch(cap(g), Slots(0, back_len),
                       Slots(shuffle_index, back_len))

\* Queue::enqueue: ptr::write at ptr.add(back()) after the growth.
enqueue_touch(s) ==
    LET g == IF is_full(s) THEN grow(s) ELSE s
    IN  Touch(cap(g), {}, {back(g)})

\* Queue::requeue: ptr::write at ptr.add(front) after the growth and
\* decr_front.
requeue_touch(s) ==
    LET g == IF is_full(s) THEN grow(s) ELSE s
        d == decr_front(g)
    IN  Touch(cap(d), {}, {d.front})

\* Queue::dequeue: ptr::read at ptr.add(front) when len > 0.
dequeue_touch(s) ==
    IF s.len = 0 THEN Touch(cap(s), {}, {})
    ELSE Touch(cap(s), {s.front}, {})

\* Queue::peek: the reference to ptr.add(front) when len > 0.
peek_touch(s) ==
    IF s.len = 0 THEN Touch(cap(s), {}, {})
    ELSE Touch(cap(s), {s.front}, {})

\* Every slot of the accesses t lies in [0, capacity).
InBounds(t) == (t.reads \cup t.writes) \subseteq 0..(t.cap - 1)

\* The slots of the buffer of b whose bits are not those that the buffer
\* of a had (a slot added by a growth starts as Junk).
Written(a, b) ==
    {i \in DOMAIN b.buf.slots :
       b.buf.slots[i] # (IF i \in DOMAIN a.buf.slots
                         THEN a.buf.slots[i] ELSE Junk)}

\* The accesses of the growth of the full queue s are within the new
\* capacity, their destination holds no live element that stays where it
\* is, and nothing else is written.
GrowWithinCapacity(s) ==
    LET t == grow_touch(s)
    IN  /\ t.cap = cap(grow(s))
        /\ InBounds(t)
        /\ t.reads \subseteq s.live
        /\ t.writes \cap (s.live \ t.reads) = {}
        /\ Written(s, grow(s)) \subseteq t.writes

\* The same for every full queue of capacity 2^0 .. 2^MaxExp, whatever its
\* front.
EveryGrowWithinCapacity ==
    \A e \in 0..MaxExp : \A f \in 0..(Pow2(e) - 1) :
        GrowWithinCapacity(FullQueue(Pow2(e), f))

\* The accesses of every List call on the List s (an insertion puts in a
\* value that no run has used) are within the capacity that the buffer has
\* when they are made, and nothing else is written.
ListWithinCapacity(s) ==
    /\ InBounds(push_touch(s))
    /\ push_touch(s).cap = cap(push(s, MaxRun + 1))
    /\ Written(s, push(s, MaxRun + 1)) = push_touch(s).writes
    /\ InBounds(pop_touch(s))
    /\ Written(s, pop(s).l) = {}
    /\ \A i \in 0..(cap(s) + 1) :
         /\ InBounds(get_touch(s, i))
         /\ get(s, i).ret # None => get_touch(s, i).reads = {i}
         /\ InBounds(insert_touch(s, i))
         /\ insert_touch(s, i).cap = cap(insert(s, i, MaxRun + 1).l)
         /\ Written(s, insert(s, i, MaxRun + 1).l)
              \subseteq insert_touch(s, i).writes
         /\ InBounds(remove_touch(s, i))
         /\ remove_touch(s, i).cap = cap(remove(s, i).l)
         /\ Written(s, remove(s, i).l) \subseteq remove_touch(s, i).writes

\* The same for the List that every run of at most MaxRun calls leaves.
EveryListWithinCapacity ==
    \A run \in Runs : ListWithinCapacity(RunList(run, Len(run)))

\* C33: no List or Queue operation reads or writes a slot at an index >=
\* the capacity: push and insert write and shift within [0, capacity)
\* after any growth, enqueue and requeue write below the capacity, dequeue
\* and peek read at front < capacity, and the source and the destination
\* of the relocation of Queue growth lie within the new capacity without
\* overwriting a live element that is not being moved.
C33_AccessWithinCapacity ==
    /\ InBounds(enqueue_touch(q))
    /\ InBounds(requeue_touch(q))
    /\ InBounds(dequeue_touch(q))
    /\ InBounds(peek_touch(q))
    /\ q.len > 0 => q.front < cap(q)
    /\ is_full(q) => GrowWithinCapacity(q)
    /\ lastOp = "enqueue" =>
         /\ enqueue_touch(pre).cap = cap(q)
         /\ Written(pre, q) \subseteq
              enqueue_touch(pre).writes
                \cup (IF is_full(pre) THEN grow_touch(pre).writes ELSE {})
         /\ q.live \ pre.live \subseteq 0..(cap(q) - 1)
    /\ lastOp = "requeue" =>
         /\ requeue_touch(pre).cap = cap(q)
         /\ Written(pre, q) \subseteq
              requeue_touch(pre).writes
                \cup (IF is_full(pre) THEN grow_touch(pre).writes ELSE {})
         /\ q.live \ pre.live \subseteq 0..(cap(q) - 1)
    /\ lastOp \in {"dequeue", "peek"} =>
         /\ Written(pre, q) = {}
         /\ ret # None => dequeue_touch(pre).reads = {pre.front}
    /\ EveryGrowWithinCapacity
    /\ EveryListWithinCapacity

\* C33 witness: a requeue on a full queue of capacity 4 with front 3 grew
\* the buffer to 8, moved the one slot [3, 4) to slot 7 and wrote the new
\* element at slot 6, below the new capacity.
C33_Witness ==
    /\ lastOp = "requeue"
    /\ is_full(pre)
    /\ cap(pre) = 4
    /\ pre.front = 3
    /\ cap(q) = 8
    /\ grow_touch(pre) = Touch(8, {3}, {7})
    /\ requeue_touch(pre) = Touch(8, {}, {6})
    /\ q.front = 6

(***************************************************************************)
(* The index arithmetic of the Queue                                       *)
(* front, len and the capacity are usize: a subtraction whose result would *)
(* be negative and a remainder by 0 are faults (a panic where overflow is  *)
(* checked, a wrapped value where it is not).                              *)
(***************************************************************************)

\* The fault `name` when its condition holds.
Fault(name, cond) == IF cond THEN {name} ELSE {}

\* Queue::grow: cap - front, cap - front_len and, when the front segment
\* moves, new cap - front_len.
grow_faults(s) ==
    LET front_len == cap(s) - s.front
        back_len == cap(s) - front_len
        g == [s EXCEPT !.buf = RawList_grow(s.buf)]
    IN  Fault("cap - front", cap(s) < s.front)
          \cup Fault("cap - front_len", cap(s) < front_len)
          \cup (IF s.front # 0 /\ front_len < back_len
                THEN Fault("new cap - front_len", cap(g) < front_len)
                ELSE {})

\* Queue::decr_front: cap - 1 when front is 0, front - 1 otherwise.
decr_front_faults(s) ==
    IF s.front = 0 THEN Fault("cap - 1", cap(s) < 1)
    ELSE Fault("front - 1", s.front < 1)

\* Queue::back: (front + len) % cap.
back_faults(s) == Fault("% cap", cap(s) = 0)

\* Queue::enqueue: the arithmetic of grow when the queue is full, then
\* that of back.
enqueue_faults(s) ==
    LET g == IF is_full(s) THEN grow(s) ELSE s
    IN  (IF is_full(s) THEN grow_faults(s) ELSE {}) \cup back_faults(g)

\* Queue::requeue: the arithmetic of grow when the queue is full, then
\* that of decr_front.
requeue_faults(s) ==
    LET g == IF is_full(s) THEN grow(s) ELSE s
    IN  (IF is_full(s) THEN grow_faults(s) ELSE {}) \cup decr_front_faults(g)

\* Queue::dequeue: len - 1 when the queue is not empty.
dequeue_faults(s) ==
    IF s.len = 0 THEN {} ELSE Fault("len - 1", s.len < 1)

\* The two segment lengths that grow computes for the full queue s: they
\* add up to len, and the second is front.
GrowSegments(s) ==
    LET front_len == cap(s) - s.front
        back_len == cap(s) - front_len
    IN  /\ front_len >= 0
        /\ back_len >= 0
        /\ front_len + back_len = s.len
        /\ back_len = s.front

\* C34: the index arithmetic of the Queue never faults: with capacity 0
\* both front and len are 0, so the first growth's capacity - front does
\* not underflow and decr_front's capacity - 1 is evaluated only with
\* capacity >= 1; grow is entered only with len = capacity, where its two
\* segment lengths capacity - front and front add up to len; and
\* (front + len) mod capacity is evaluated only with capacity > 0.
C34_IndexArithmeticNeverFaults ==
    /\ cap(q) = 0 => q.front = 0 /\ q.len = 0
    /\ q.front <= cap(q)
    /\ q.len <= cap(q)
    /\ enqueue_faults(q) = {}
    /\ requeue_faults(q) = {}
    /\ dequeue_faults(q) = {}
    /\ is_full(q) =>
         /\ grow_faults(q) = {}
         /\ GrowSegments(q)
         /\ cap(grow(q)) >= 1
         /\ cap(grow(q)) > q.len
    /\ ~is_full(q) => cap(q) > 0
    /\ (lastOp \in {"enqueue", "requeue"} /\ cap(q) # cap(pre)) =>
         /\ pre.len = cap(pre)
         /\ q = (IF lastOp = "enqueue"
                 THEN enqueue(pre, hist[Len(hist)].val)
                 ELSE requeue(pre, hist[Len(hist)].val))
         /\ q.len = pre.len + 1
    /\ (lastOp \in {"enqueue", "requeue"} /\ cap(q) = cap(pre)) =>
         pre.len < cap(pre)
    /\ lastOp \in {"dequeue", "peek", "fmt"} => cap(q) = cap(pre)

\* C34 witness: the first call on a new Queue (capacity 0, front 0, len 0)
\* was a requeue: grow computed 0 - 0 and made the capacity 1, decr_front
\* computed 1 - 1, and the element is at slot 0.
C34_Witness ==
    /\ lastOp = "requeue"
    /\ pre = Queue_new
    /\ cap(pre) = 0
    /\ cap(q) = 1
    /\ q.front = 0
    /\ q.len = 1
    /\ q.live = {0}

\* A later growth with both segments in play: a full queue of capacity 4
\* with front 3 was grown by an enqueue, with segment lengths 1 and 3.
GrowWithBothSegments ==
    /\ lastOp = "enqueue"
    /\ cap(pre) = 4
    /\ pre.len = 4
    /\ pre.front = 3
    /\ cap(q) = 8
    /\ q.front = 7

====
